---- MODULE Spec2Model ----
(***************************************************************************)
(* Recovery Orchestrator and Dead Man's Switch of B3-Decentapp            *)
(* (recoveryService, dmsService and their routes).                         *)
(*                                                                         *)
(* The store is Redis.  Every `await` on a store helper is one atomic      *)
(* step; the local computation between two awaits belongs to the step of   *)
(* the await that precedes it.  A request that is rejected before its      *)
(* first store access never touches the store.  The requests of the        *)
(* signed routes are those whose body is complete and whose signature      *)
(* verifies (middleware/auth.js); an error message is the sequence of its  *)
(* words, so that includes() keeps its case-sensitive matching.            *)
(*                                                                         *)
(* Hashes are functions from field names to values, the missing key is     *)
(* the empty function.  Redis keeps hash fields as strings and the code    *)
(* converts with Number(...) and JSON.parse(JSON.stringify(...)); both     *)
(* conversions return the value that was stored, so fields hold the value  *)
(* itself.  createdAt fields are not read by any operation and are left    *)
(* out.                                                                    *)
(***************************************************************************)
EXTENDS Integers, Sequences, FiniteSets, TLC

VARIABLES
    config,       \* recovery:config:{owner}             hash
    gshare,       \* recovery:share:{guardian}:{owner}   hash
    session,      \* recovery:session:{sid}              hash
    sessTTL,      \* whether recovery:session:{sid} carries an expiry
    sshare,       \* recovery:session:{sid}:share:{g}    string (always with expiry)
    elapsed,      \* the 24 h after setExpiry of session sid have passed
    revoked,      \* owner's config was last touched by revokeShares' deleteKey
    distributes,  \* POST /distribute requests
    revokes,      \* DELETE /revoke requests
    creates,      \* POST /request requests
    approves,     \* POST /session/:id/approve requests
    releases,     \* GET /session/:id/shares requests
    switch,       \* dms:switch:{switchId}              hash
    userIdx,      \* dms:user:{pubkey}                  set of switch ids
    activeIdx,    \* dms:active                         set of switch ids
    fallback,     \* dms:local-...                      message blob (fallback payload)
    release,      \* dms:release:{switchId}             message blob
    now,          \* the server's clock, in hours
    dcreates,     \* POST /api/dms/create requests
    checkins,     \* POST /api/dms/checkin requests
    cancels,      \* DELETE /api/dms/:switchId requests
    lists,        \* GET /api/dms/list/:pubkey requests
    sweeps        \* POST /api/dms/process requests

storeVars == <<config, gshare, session, sessTTL, sshare, elapsed, revoked>>
callVars  == <<distributes, revokes, creates, approves, releases>>
recoveryVars == <<config, gshare, session, sessTTL, sshare, elapsed, revoked,
                  distributes, revokes, creates, approves, releases>>
dmsVars   == <<switch, userIdx, activeIdx, fallback, release, now,
               dcreates, checkins, cancels, lists, sweeps>>
vars      == <<config, gshare, session, sessTTL, sshare, elapsed, revoked,
               distributes, revokes, creates, approves, releases,
               switch, userIdx, activeIdx, fallback, release, now,
               dcreates, checkins, cancels, lists, sweeps>>

----------------------------------------------------------------------------
\* Bounds of the model

\* approve requests issued in one behaviour
MaxApprove == 2
\* distribute + revoke requests issued in one behaviour
MaxConfigCalls == 2

Owners     == {"o1"}
Guardians  == {"g1", "g2", "g3"}
\* the UUIDs crypto.randomUUID() hands out, one per /request.  No operation
\* reads or writes the keys of more than one session.
SessionIds == {"s1"}

\* request bodies of /distribute: threshold and guardian pubkeys
DistributeThresholds == {1, 2}
DistributeLists == { <<"g1", "g2">>, <<"g2", "g3">>, <<"g1", "g1">>, <<"g3">> }
\* request bodies of /request: requestedGuardians
RequestLists ==
    { <<"g1", "g2">>, <<"g1", "g2", "g3">>, <<"g2", "g2">>, <<"g1", "g2", "g2">>, <<"g3">>, <<>> }
\* the configurations sessions are requested against
SessionConfigs ==
    { <<2, <<"g1", "g2">> >>, <<2, <<"g1", "g2", "g3">> >>, <<3, <<"g1", "g2", "g3">> >> }

----------------------------------------------------------------------------
\* Key-value store helpers (services/redis.js)

NoHash   == <<>>
NoString == <<>>

\* HSET key field value ...: merges the given fields into the hash
SetHash(h, updates) ==
    [f \in (DOMAIN h) \cup (DOMAIN updates) |->
        IF f \in DOMAIN updates THEN updates[f] ELSE h[f]]

\* HGETALL key
GetHash(h) == h

\* DEL key
DeleteKey == NoHash

Range(seq) == {seq[i] : i \in 1..Len(seq)}

\* String.prototype.includes on messages, a message being its sequence of words
Includes(msg, needle) ==
    \E i \in 0..(Len(msg) - Len(needle)) :
        \A j \in 1..Len(needle) : msg[i + j] = needle[j]

----------------------------------------------------------------------------
\* recoveryService: readers

GetRecoveryConfig(o) ==
    LET data == GetHash(config[o])
    IN  IF "ownerPubkey" \notin DOMAIN data THEN NoHash ELSE data

GetSession(s) ==
    LET data == GetHash(session[s])
    IN  IF "sessionId" \notin DOMAIN data THEN NoHash ELSE data

\* getString(sessionShareKey(s, g))
GetSessionShare(s, g) == sshare[s][g]

\* the SessionShare records stored for session s
SessionShares(s) == {g \in Guardians : sshare[s][g] # NoString}

\* GET /session/:sessionId/status: one read of the store, answered from it
StatusRoute(s) ==
    LET sess == GetSession(s)
    IN  IF sess = NoHash
            THEN [http |-> 404]
            ELSE [http              |-> 200,
                  sessionId         |-> sess.sessionId,
                  status            |-> sess.status,
                  approvalsReceived |-> sess.approvals,
                  thresholdRequired |-> sess.threshold,
                  ownerPubkey       |-> sess.ownerPubkey]

\* error messages thrown by the service
MsgNoSession      == <<"Session", "not", "found", "or", "expired">>
MsgSessionIs(st)  == <<"Session", "is", st>>
MsgNotGuardian    == <<"Not", "a", "valid", "guardian", "for", "this", "session">>
MsgAlready        == <<"Guardian", "already", "approved", "this", "session">>
MsgNotReady       == <<"Session", "not", "ready", "-", "more", "approvals", "needed">>
MsgNoConfig       == <<"No", "recovery", "config", "found", "for", "this", "identity">>
MsgNotAGuardian(g) == <<g, "is", "not", "a", "guardian", "for", "this", "identity">>
NoMsg             == <<>>


----------------------------------------------------------------------------
\* POST /request  ->  createSession

RequestErrorStatus(msg) ==
    IF Includes(msg, <<"No", "recovery", "config">>) THEN 404
    ELSE IF Includes(msg, <<"not", "a", "guardian">>) THEN 400
    ELSE 500

\* the first requested guardian that is not a configured guardian ("" if none)
FirstInvalid(requestedGuardians, validGuardians) ==
    LET bad == {i \in 1..Len(requestedGuardians) :
                    requestedGuardians[i] \notin Range(validGuardians)}
    IN  IF bad = {} THEN ""
        ELSE requestedGuardians[CHOOSE i \in bad : \A j \in bad : i <= j]

\* createSession without its validation loop
CreateValidate_None(requestedGuardians, validGuardians) == ""

\* the validation loop of createSession: "" or the guardian it throws for
CreateValidate(requestedGuardians, validGuardians) ==
    FirstInvalid(requestedGuardians, validGuardians)

NewSession(sid, o, cfg, requestedGuardians) ==
    [sessionId       |-> sid,
     ownerPubkey     |-> o,
     ephemeralPubkey |-> "ep",
     status          |-> "pending",
     approvals       |-> 0,
     threshold       |-> cfg.threshold,
     guardianPubkeys |-> requestedGuardians]

CreateCall(o, list, pc, cfg, uuid, sid, sess, http) ==
    [owner |-> o, list |-> list, pc |-> pc, cfg |-> cfg, uuid |-> uuid, sid |-> sid,
     sess |-> sess, http |-> http]

\* the UUIDs no /request has drawn yet
FreshIds == SessionIds \ {creates[c].uuid : c \in 1..Len(creates)}

\* the request up to and including its first store access, getRecoveryConfig;
\* uuid is what crypto.randomUUID() returns to it if it gets that far
CreateBegin ==
    \E o \in Owners, list \in RequestLists, sid \in FreshIds :
        /\ LET uuid == sid
               cfg  == GetRecoveryConfig(o)
               bad  == IF cfg = NoHash THEN "" ELSE CreateValidate(list, cfg.guardianPubkeys)
               call ==
                   IF Len(list) = 0
                       THEN CreateCall(o, list, "done", NoHash, uuid, "", NoHash, 400)
                   ELSE IF cfg = NoHash
                       THEN CreateCall(o, list, "done", cfg, uuid, "", NoHash,
                                       RequestErrorStatus(MsgNoConfig))
                   ELSE IF bad # ""
                       THEN CreateCall(o, list, "done", cfg, uuid, "", NoHash,
                                       RequestErrorStatus(MsgNotAGuardian(bad)))
                   ELSE CreateCall(o, list, "setHash", cfg, uuid, sid,
                                   NewSession(sid, o, cfg, list), 0)
           IN  creates' = Append(creates, call)
        /\ UNCHANGED <<storeVars, distributes, revokes, approves, releases, dmsVars>>

CreateSetHash ==
    \E c \in 1..Len(creates) :
        /\ creates[c].pc = "setHash"
        /\ session' = [session EXCEPT ![creates[c].sid] = SetHash(@, creates[c].sess)]
        /\ creates' = [creates EXCEPT ![c].pc = "setExpiry"]
        /\ UNCHANGED <<config, gshare, sessTTL, sshare, elapsed, revoked,
                       distributes, revokes, approves, releases, dmsVars>>

CreateSetExpiry ==
    \E c \in 1..Len(creates) :
        /\ creates[c].pc = "setExpiry"
        /\ sessTTL' = [sessTTL EXCEPT ![creates[c].sid] = (session[creates[c].sid] # NoHash)]
        /\ creates' = [creates EXCEPT ![c].pc = "done", ![c].http = 200]
        /\ UNCHANGED <<config, gshare, session, sshare, elapsed, revoked,
                       distributes, revokes, approves, releases, dmsVars>>

\* A client can name a session id once /request has returned it; any other
\* id it sends is one no request was ever given.
Known(s) == \A c \in 1..Len(creates) : creates[c].sid = s => creates[c].pc = "done"

----------------------------------------------------------------------------
\* POST /session/:sessionId/approve  ->  approveSession

\* the route without its 404 branch
ApproveErrorStatus_NoNotFound(msg) ==
    IF Includes(msg, <<"already", "approved">>) THEN 409
    ELSE IF Includes(msg, <<"not", "a", "valid", "guardian">>) THEN 403
    ELSE 500

\* the route without its 409 branch
ApproveErrorStatus_NoConflict(msg) ==
    IF Includes(msg, <<"not", "found">>) \/ Includes(msg, <<"expired">>) THEN 404
    ELSE IF Includes(msg, <<"not", "a", "valid", "guardian">>) THEN 403
    ELSE 500

ApproveErrorStatus(msg) ==
    IF Includes(msg, <<"not", "found">>) \/ Includes(msg, <<"expired">>) THEN 404
    ELSE IF Includes(msg, <<"already", "approved">>) THEN 409
    ELSE IF Includes(msg, <<"not", "a", "valid", "guardian">>) THEN 403
    ELSE 500

ApproveFail(call, msg) ==
    [call EXCEPT !.pc = "done", !.msg = msg, !.http = ApproveErrorStatus(msg)]

\* approveSession without the status check of line 208
ApproveCheckSession_NoStatus(call) ==
    IF call.sess = NoHash THEN ApproveFail(call, MsgNoSession)
    ELSE IF call.g \notin Range(call.sess.guardianPubkeys)
        THEN ApproveFail(call, MsgNotGuardian)
    ELSE [call EXCEPT !.pc = "getString"]

\* lines 206-213: the checks on the session that getSession returned
ApproveCheckSession(call) ==
    IF call.sess = NoHash THEN ApproveFail(call, MsgNoSession)
    ELSE IF call.sess.status # "pending"
        THEN ApproveFail(call, MsgSessionIs(call.sess.status))
    ELSE IF call.g \notin Range(call.sess.guardianPubkeys)
        THEN ApproveFail(call, MsgNotGuardian)
    ELSE [call EXCEPT !.pc = "getString"]

\* approveSession without the check of line 217
AlreadyApproved_Never(existing) == FALSE

\* line 217: if (existing) throw
AlreadyApproved(existing) == existing # NoString

\* lines 223-227: the fields written back, from the session read at line 206
ApproveUpdates(sess) ==
    LET newCount == sess.approvals + 1
    IN  IF newCount >= sess.threshold
            THEN [approvals |-> newCount, status |-> "ready"]
            ELSE [approvals |-> newCount]

\* the guardian has a completed, successful approval of s behind it
ApprovedBefore(s, g) ==
    \E i \in 1..Len(approves) :
        /\ approves[i].s = s /\ approves[i].g = g
        /\ approves[i].pc = "done" /\ approves[i].http = 200

ApproveBegin ==
    \E s \in SessionIds, g \in Guardians :
        /\ Len(approves) < MaxApprove
        /\ Known(s)
        /\ LET call == [s |-> s, g |-> g, share |-> <<"r", Len(approves) + 1>>,
                        pc |-> "getSession", sess |-> GetSession(s), msg |-> NoMsg,
                        http |-> 0, received |-> 0, prior |-> ApprovedBefore(s, g)]
           IN  approves' = Append(approves, ApproveCheckSession(call))
        /\ UNCHANGED <<storeVars, distributes, revokes, creates, releases, dmsVars>>

\* an approve request that arrives once the MaxApprove earlier ones have all
\* been answered; none is issued after it
ApproveLate ==
    \E s \in SessionIds, g \in Guardians :
        /\ Len(approves) = MaxApprove
        /\ \A c \in 1..Len(approves) : approves[c].pc = "done"
        /\ Known(s)
        /\ LET call == [s |-> s, g |-> g, share |-> <<"r", Len(approves) + 1>>,
                        pc |-> "getSession", sess |-> GetSession(s), msg |-> NoMsg,
                        http |-> 0, received |-> 0, prior |-> ApprovedBefore(s, g)]
           IN  approves' = Append(approves, ApproveCheckSession(call))
        /\ UNCHANGED <<storeVars, distributes, revokes, creates, releases, dmsVars>>

ApproveGetString ==
    \E c \in 1..Len(approves) :
        /\ approves[c].pc = "getString"
        /\ approves' = [approves EXCEPT ![c] =
               IF AlreadyApproved(GetSessionShare(approves[c].s, approves[c].g))
                   THEN ApproveFail(@, MsgAlready)
                   ELSE [@ EXCEPT !.pc = "setString"]]
        /\ UNCHANGED <<storeVars, distributes, revokes, creates, releases, dmsVars>>

ApproveSetString ==
    \E c \in 1..Len(approves) :
        /\ approves[c].pc = "setString"
        /\ sshare' = [sshare EXCEPT ![approves[c].s][approves[c].g] = approves[c].share]
        /\ approves' = [approves EXCEPT ![c].pc = "setHash"]
        /\ UNCHANGED <<config, gshare, session, sessTTL, elapsed, revoked,
                       distributes, revokes, creates, releases, dmsVars>>

ApproveSetHash ==
    \E c \in 1..Len(approves) :
        /\ approves[c].pc = "setHash"
        /\ session' = [session EXCEPT ![approves[c].s] =
                          SetHash(@, ApproveUpdates(approves[c].sess))]
        /\ approves' = [approves EXCEPT ![c].pc = "done", ![c].http = 200,
                                        ![c].received = approves[c].sess.approvals + 1]
        /\ UNCHANGED <<config, gshare, sessTTL, sshare, elapsed, revoked,
                       distributes, revokes, creates, releases, dmsVars>>

----------------------------------------------------------------------------
\* GET /session/:sessionId/shares  ->  getReleasedShares

SharesErrorStatus(msg) ==
    IF Includes(msg, <<"not", "found">>) \/ Includes(msg, <<"expired">>) THEN 404
    ELSE IF Includes(msg, <<"not", "ready">>) THEN 403
    ELSE 500

ReleaseFail(call, msg) ==
    [call EXCEPT !.pc = "done", !.msg = msg, !.http = SharesErrorStatus(msg)]

\* getReleasedShares without the status check of line 245
ReleaseCheckSession_NoStatus(call) ==
    IF call.sess = NoHash THEN ReleaseFail(call, MsgNoSession)
    ELSE IF Len(call.sess.guardianPubkeys) = 0
        THEN [call EXCEPT !.pc = "done", !.http = 200]
    ELSE [call EXCEPT !.pc = "getString"]

\* lines 244-245 and the entry of the loop
ReleaseCheckSession(call) ==
    IF call.sess = NoHash THEN ReleaseFail(call, MsgNoSession)
    ELSE IF call.sess.status # "ready" THEN ReleaseFail(call, MsgNotReady)
    ELSE IF Len(call.sess.guardianPubkeys) = 0
        THEN [call EXCEPT !.pc = "done", !.http = 200]
    ELSE [call EXCEPT !.pc = "getString"]

\* one /shares request is in flight at a time; its record stays until the next
ReleaseBegin ==
    \E s \in SessionIds :
        /\ \A c \in 1..Len(releases) : releases[c].pc = "done"
        /\ Known(s)
        /\ LET call == [s |-> s, pc |-> "getSession", sess |-> GetSession(s), i |-> 1,
                        shares |-> <<>>, msg |-> NoMsg, http |-> 0]
           IN  releases' = <<ReleaseCheckSession(call)>>
        /\ UNCHANGED <<storeVars, distributes, revokes, creates, approves, dmsVars>>

ReleaseGetString ==
    /\ releases # <<>>
    /\ releases[1].pc = "getString"
    /\ LET call  == releases[1]
           g     == call.sess.guardianPubkeys[call.i]
           share == GetSessionShare(call.s, g)
           got   == IF share # NoString
                        THEN Append(call.shares,
                                    [guardianPubkey |-> g, reEncryptedShare |-> share])
                        ELSE call.shares
           last  == call.i = Len(call.sess.guardianPubkeys)
       IN  releases' = <<[call EXCEPT !.shares = got, !.i = call.i + 1,
                                      !.pc = IF last THEN "done" ELSE "getString",
                                      !.http = IF last THEN 200 ELSE 0]>>
    /\ UNCHANGED <<storeVars, distributes, revokes, creates, approves, dmsVars>>

----------------------------------------------------------------------------
\* Expiry of keys (Redis TTL, SESSION_TTL = 24 h after it was set)

ExpireSession ==
    \E s \in SessionIds :
        /\ session[s] # NoHash
        /\ sessTTL[s]
        /\ session' = [session EXCEPT ![s] = NoHash]
        /\ sessTTL' = [sessTTL EXCEPT ![s] = FALSE]
        /\ elapsed' = [elapsed EXCEPT ![s] = TRUE]
        /\ UNCHANGED <<config, gshare, sshare, revoked, callVars, dmsVars>>

\* A share is written after /request returned the session id, so after the
\* session's expiry was set: its own expiry falls after the session's.
ExpireShare ==
    \E s \in SessionIds, g \in Guardians :
        /\ sshare[s][g] # NoString
        /\ elapsed[s]
        /\ sshare' = [sshare EXCEPT ![s][g] = NoString]
        /\ UNCHANGED <<config, gshare, session, sessTTL, elapsed, revoked, callVars, dmsVars>>


----------------------------------------------------------------------------
\* POST /distribute  ->  revokeShares, distributeShares;  DELETE /revoke

MAX_GUARDIANS == 10

\* the guardians[] of a request body: the k-th request's ciphertexts
MkGuardians(pubkeys, k) ==
    [i \in 1..Len(pubkeys) |->
        [pubkey |-> pubkeys[i], encryptedShare |-> <<"c", k, i>>, shareIndex |-> i - 1]]

\* lines 46-60 of the route without the check of line 58
DistributeValidate_NoMax(threshold, guardians) ==
    IF threshold = 0 THEN 400
    ELSE IF threshold < 2 THEN 400
    ELSE IF Len(guardians) < threshold THEN 400
    ELSE 0

\* lines 46-60 of the route: 0 when the body is accepted
DistributeValidate(threshold, guardians) ==
    IF threshold = 0 THEN 400
    ELSE IF threshold < 2 THEN 400
    ELSE IF Len(guardians) < threshold THEN 400
    ELSE IF Len(guardians) > MAX_GUARDIANS THEN 400
    ELSE 0

NewConfig(o, threshold, guardians) ==
    [ownerPubkey     |-> o,
     threshold       |-> threshold,
     guardianPubkeys |-> [i \in 1..Len(guardians) |-> guardians[i].pubkey]]

NewShare(o, g) ==
    [encryptedShare |-> g.encryptedShare, ownerPubkey |-> o, shareIndex |-> g.shareIndex]

\* revokeShares after its getRecoveryConfig: where the call goes next
RevokeEnter(call, cfg) ==
    IF cfg # NoHash /\ Len(cfg.guardianPubkeys) > 0
        THEN [call EXCEPT !.cfg = cfg, !.pc = "delShare", !.i = 1]
        ELSE [call EXCEPT !.cfg = cfg, !.pc = "delConfig"]

\* one turn of the loop of revokeShares
RevokeLoop(call) ==
    IF call.i = Len(call.cfg.guardianPubkeys)
        THEN [call EXCEPT !.pc = "delConfig"]
        ELSE [call EXCEPT !.i = call.i + 1]

ConfigCalls == Len(distributes) + Len(revokes)

\* distribute requests answered in one behaviour of SpecGate
MaxRejected == 1

\* a list of MAX_GUARDIANS + 1 guardian pubkeys
TooManyGuardians == [i \in 1..(MAX_GUARDIANS + 1) |-> IF i % 2 = 1 THEN "g1" ELSE "g2"]

\* request bodies of /distribute that the route does not accept: threshold 1,
\* more than MAX_GUARDIANS guardians, fewer guardians than the threshold
RejectedBodies ==
    { <<1, <<"g1", "g2">> >>, <<2, TooManyGuardians>>, <<3, <<"g1", "g2">> >> }

\* the route answering one of these requests, lines 46-60
DistributeRejected ==
    \E o \in Owners, body \in RejectedBodies :
        /\ Len(distributes) < MaxRejected
        /\ LET guardians == MkGuardians(body[2], Len(distributes) + 1)
               bad  == DistributeValidate(body[1], guardians)
               call == [owner |-> o, threshold |-> body[1], guardians |-> guardians,
                        pc |-> "done", cfg |-> NoHash, i |-> 0, http |-> bad,
                        alone |-> FALSE]
           IN  distributes' = Append(distributes,
                   IF bad # 0 THEN call ELSE RevokeEnter(call, GetRecoveryConfig(o)))
        /\ UNCHANGED <<storeVars, revokes, creates, approves, releases, dmsVars>>

DistributeBegin ==
    \E o \in Owners, t \in DistributeThresholds, list \in DistributeLists :
        /\ ConfigCalls < MaxConfigCalls
        /\ LET guardians == MkGuardians(list, Len(distributes) + 1)
               bad  == DistributeValidate(t, guardians)
               call == [owner |-> o, threshold |-> t, guardians |-> guardians,
                        pc |-> "done", cfg |-> NoHash, i |-> 0, http |-> bad,
                        alone |-> FALSE]
           IN  distributes' = Append(distributes,
                   IF bad # 0 THEN call ELSE RevokeEnter(call, GetRecoveryConfig(o)))
        /\ UNCHANGED <<storeVars, revokes, creates, approves, releases, dmsVars>>

DistributeDelShare ==
    \E c \in 1..Len(distributes) :
        /\ distributes[c].pc = "delShare"
        /\ LET call == distributes[c]
           IN  /\ gshare' = [gshare EXCEPT
                                ![call.owner][call.cfg.guardianPubkeys[call.i]] = DeleteKey]
               /\ distributes' = [distributes EXCEPT ![c] = RevokeLoop(call)]
        /\ UNCHANGED <<config, session, sessTTL, sshare, elapsed, revoked,
                       revokes, creates, approves, releases, dmsVars>>

DistributeDelConfig ==
    \E c \in 1..Len(distributes) :
        /\ distributes[c].pc = "delConfig"
        /\ config' = [config EXCEPT ![distributes[c].owner] = DeleteKey]
        /\ revoked' = [revoked EXCEPT ![distributes[c].owner] = TRUE]
        /\ distributes' = [distributes EXCEPT ![c].pc = "setConfig"]
        /\ UNCHANGED <<gshare, session, sessTTL, sshare, elapsed,
                       revokes, creates, approves, releases, dmsVars>>

DistributeSetConfig ==
    \E c \in 1..Len(distributes) :
        /\ distributes[c].pc = "setConfig"
        /\ LET call == distributes[c]
           IN  /\ config' = [config EXCEPT ![call.owner] =
                                SetHash(@, NewConfig(call.owner, call.threshold, call.guardians))]
               /\ revoked' = [revoked EXCEPT ![call.owner] = FALSE]
               /\ distributes' = [distributes EXCEPT ![c] =
                      IF Len(call.guardians) = 0
                          THEN [call EXCEPT !.pc = "done", !.http = 200]
                          ELSE [call EXCEPT !.pc = "setShare", !.i = 1]]
        /\ UNCHANGED <<gshare, session, sessTTL, sshare, elapsed,
                       revokes, creates, approves, releases, dmsVars>>

DistributeSetShare ==
    \E c \in 1..Len(distributes) :
        /\ distributes[c].pc = "setShare"
        /\ LET call == distributes[c]
               g    == call.guardians[call.i]
           IN  /\ gshare' = [gshare EXCEPT ![call.owner][g.pubkey] =
                                SetHash(@, NewShare(call.owner, g))]
               /\ distributes' = [distributes EXCEPT ![c] =
                      IF call.i = Len(call.guardians)
                          THEN [call EXCEPT !.pc = "done", !.http = 200]
                          ELSE [call EXCEPT !.i = call.i + 1]]
        /\ UNCHANGED <<config, session, sessTTL, sshare, elapsed, revoked,
                       revokes, creates, approves, releases, dmsVars>>

RevokeBegin ==
    \E o \in Owners :
        /\ ConfigCalls < MaxConfigCalls
        /\ LET call == [owner |-> o, pc |-> "getConfig", cfg |-> NoHash, i |-> 0, http |-> 0,
                        alone |-> FALSE]
           IN  revokes' = Append(revokes, RevokeEnter(call, GetRecoveryConfig(o)))
        /\ UNCHANGED <<storeVars, distributes, creates, approves, releases, dmsVars>>

RevokeDelShare ==
    \E c \in 1..Len(revokes) :
        /\ revokes[c].pc = "delShare"
        /\ LET call == revokes[c]
           IN  /\ gshare' = [gshare EXCEPT
                                ![call.owner][call.cfg.guardianPubkeys[call.i]] = DeleteKey]
               /\ revokes' = [revokes EXCEPT ![c] = RevokeLoop(call)]
        /\ UNCHANGED <<config, session, sessTTL, sshare, elapsed, revoked,
                       distributes, creates, approves, releases, dmsVars>>

\* revokeShares that would also delete the owner's sessions
RevokeDelConfig_DropSessions ==
    \E c \in 1..Len(revokes) :
        /\ revokes[c].pc = "delConfig"
        /\ config' = [config EXCEPT ![revokes[c].owner] = DeleteKey]
        /\ revoked' = [revoked EXCEPT ![revokes[c].owner] = TRUE]
        /\ revokes' = [revokes EXCEPT ![c].pc = "done", ![c].http = 200]
        /\ session' = [s \in SessionIds |->
                          IF GetSession(s) # NoHash
                                 /\ GetSession(s).ownerPubkey = revokes[c].owner
                              THEN DeleteKey ELSE session[s]]
        /\ UNCHANGED <<gshare, sessTTL, sshare, elapsed,
                       distributes, creates, approves, releases, dmsVars>>

RevokeDelConfig ==
    \E c \in 1..Len(revokes) :
        /\ revokes[c].pc = "delConfig"
        /\ config' = [config EXCEPT ![revokes[c].owner] = DeleteKey]
        /\ revoked' = [revoked EXCEPT ![revokes[c].owner] = TRUE]
        /\ revokes' = [revokes EXCEPT ![c].pc = "done", ![c].http = 200]
        /\ UNCHANGED <<gshare, session, sessTTL, sshare, elapsed,
                       distributes, creates, approves, releases, dmsVars>>

\* no /distribute or /revoke is between its first store access and its response
ConfigQuiet ==
    /\ \A c \in 1..Len(distributes) : distributes[c].pc = "done"
    /\ \A c \in 1..Len(revokes) : revokes[c].pc = "done"

\* a /distribute that overlaps no other /distribute or /revoke: it is issued
\* once the earlier ones have all been answered, and none is issued after it
DistributeAlone ==
    \E o \in Owners, t \in DistributeThresholds, list \in DistributeLists :
        /\ ConfigCalls = MaxConfigCalls
        /\ ConfigQuiet
        /\ LET guardians == MkGuardians(list, Len(distributes) + 1)
               bad  == DistributeValidate(t, guardians)
               call == [owner |-> o, threshold |-> t, guardians |-> guardians,
                        pc |-> "done", cfg |-> NoHash, i |-> 0, http |-> bad,
                        alone |-> TRUE]
           IN  distributes' = Append(distributes,
                   IF bad # 0 THEN call ELSE RevokeEnter(call, GetRecoveryConfig(o)))
        /\ UNCHANGED <<storeVars, revokes, creates, approves, releases, dmsVars>>

\* a /revoke that overlaps no other /distribute or /revoke
RevokeAlone ==
    \E o \in Owners :
        /\ ConfigCalls = MaxConfigCalls
        /\ ConfigQuiet
        /\ LET call == [owner |-> o, pc |-> "getConfig", cfg |-> NoHash, i |-> 0, http |-> 0,
                        alone |-> TRUE]
           IN  revokes' = Append(revokes, RevokeEnter(call, GetRecoveryConfig(o)))
        /\ UNCHANGED <<storeVars, distributes, creates, approves, releases, dmsVars>>

----------------------------------------------------------------------------
\* Dead man's switches: dmsService and routes/dms.ts
\*
\* The clock counts hours: Date.now() + intervalHours * 60 * 60 * 1000 is
\* now + intervalHours.  toISOString() and new Date(iso) convert a time to
\* its fixed-width text and back without loss, and the text orders as the time
\* does, so a deadline is the hour itself.
\* createdAt is read by no operation and is left out of the records.  A
\* request reads the clock between two store calls: the time it puts into a
\* write is the clock at the step of the await that answered before the
\* write, which the request keeps in its field "at" (createSwitch in "t").
\* The requests of /process are those that carry the cron secret.  A request issued "alone" starts when every earlier request has
\* been answered and is the last one issued, so it overlaps no other.

\* requests to /api/dms issued in one behaviour
MaxDmsCalls == 2
\* hours the clock runs
MaxTime == 2

DmsUsers  == {"u1", "u2"}
\* the UUIDs generateSwitchId() hands out
SwitchIds == {"w1", "w2"}
\* usernames getUserAccount finds on chain
Registered == {"bob"}

MIN_INTERVAL == 1
MAX_INTERVAL == 8760

\* request bodies of /create: senderPubkey, recipientUsername,
\* checkInIntervalHours, and whether uploadToArweave succeeds
DmsCreateInputs ==
    { <<"u1", "bob", 1, FALSE>>, <<"u1", "bob", 2, TRUE>>,
      <<"u1", "nobody", 1, TRUE>>, <<"u1", "bob", 8761, TRUE>> }

\* latestDeadline = null
NoDeadline == -1

NoBlob == <<>>

\* 365 * 24 * 60 * 60 seconds, in hours: the expiry of a fallback payload
FALLBACK_TTL == 8760

\* 90 * 24 * 60 * 60 seconds, in hours: the expiry of a released message
RELEASE_TTL == 2160

\* storeMessageBlob(key, content, ttl) at time t: the value under the key and
\* the time the key expires
StoreMessageBlob(content, ttl, t) == [content |-> content, expires |-> t + ttl]

\* getMessageContent(key) at time t: null once the key has expired
GetMessageContent(blob, t) ==
    IF blob = NoBlob THEN NoBlob
    ELSE IF t >= blob.expires THEN NoBlob
    ELSE blob.content

\* SMEMBERS returns the members of a set in some order
Orders(S) ==
    {seq \in [1..Cardinality(S) -> S] :
        \A i, j \in 1..Cardinality(S) : seq[i] = seq[j] => i = j}

GetSwitch(id) ==
    LET data == GetHash(switch[id])
    IN  IF "switchId" \notin DOMAIN data THEN NoHash ELSE data

DmsCalls == Len(dcreates) + Len(checkins) + Len(cancels) + Len(lists) + Len(sweeps)

\* no request to /api/dms is between its first step and its response
DmsQuiet ==
    /\ \A c \in 1..Len(dcreates) : dcreates[c].pc = "done"
    /\ \A c \in 1..Len(checkins) : checkins[c].pc = "done"
    /\ \A c \in 1..Len(cancels) : cancels[c].pc = "done"
    /\ \A c \in 1..Len(lists) : lists[c].pc = "done"
    /\ \A c \in 1..Len(sweeps) : sweeps[c].pc = "done"

----------------------------------------------------------------------------
\* POST /create  ->  createSwitch

\* lines 47-53 of the route: 0 when the body is accepted
DmsCreateValidate(interval) ==
    IF interval = 0 THEN 400
    ELSE IF interval < MIN_INTERVAL \/ interval > MAX_INTERVAL THEN 400
    ELSE 0

\* the encrypted message of the request that is given switch id
Payload(id) == <<"m", id>>

\* createSwitch, lines 321-334: the record it builds from the clock t it reads
\* on entry, before its first store call
NewSwitch(id, sender, recipient, handle, interval, t) ==
    [switchId          |-> id,
     senderPubkey      |-> sender,
     recipientUsername |-> recipient,
     arweaveTxId       |-> handle,
     intervalHours     |-> interval,
     nextDeadline      |-> t + interval,
     status            |-> "active"]

FreshSwitchIds ==
    SwitchIds \ ({dcreates[c].id : c \in 1..Len(dcreates)}
                    \cup {id \in SwitchIds : switch[id] # NoHash})

\* the request up to its first store access: validation, getUserAccount and
\* uploadToArweave
DmsCreateBegin ==
    \E body \in DmsCreateInputs, id \in FreshSwitchIds :
        /\ DmsCalls < MaxDmsCalls
        /\ LET bad  == DmsCreateValidate(body[3])
               call == [user |-> body[1], recipient |-> body[2], interval |-> body[3],
                        id |-> "", handle |-> <<>>, pc |-> "done", http |-> 0,
                        t |-> 0, nextDeadline |-> NoDeadline]
           IN  dcreates' = Append(dcreates,
                   IF bad # 0 THEN [call EXCEPT !.http = bad]
                   ELSE IF body[2] \notin Registered THEN [call EXCEPT !.http = 404]
                   ELSE IF body[4]
                       THEN [call EXCEPT !.id = id, !.handle = <<"tx", id>>,
                                         !.pc = "setHash", !.t = now]
                       ELSE [call EXCEPT !.id = id, !.handle = <<"local", id>>,
                                         !.pc = "storeBlob"])
        /\ UNCHANGED <<recoveryVars, switch, userIdx, activeIdx, fallback, release, now,
                       checkins, cancels, lists, sweeps>>

\* the fallback of lines 75-82: storeMessageBlob(`dms:${fallbackId}`, ...)
DmsCreateStoreBlob ==
    \E c \in 1..Len(dcreates) :
        /\ dcreates[c].pc = "storeBlob"
        /\ fallback' = [fallback EXCEPT ![dcreates[c].id] =
                            StoreMessageBlob(Payload(dcreates[c].id), FALLBACK_TTL, now)]
        /\ dcreates' = [dcreates EXCEPT ![c].pc = "setHash", ![c].t = now]
        /\ UNCHANGED <<recoveryVars, switch, userIdx, activeIdx, release, now,
                       checkins, cancels, lists, sweeps>>

\* line 337: the record was built when the previous call answered, at the
\* clock t the request holds
DmsCreateSetHash ==
    \E c \in 1..Len(dcreates) :
        /\ dcreates[c].pc = "setHash"
        /\ LET call   == dcreates[c]
               record == NewSwitch(call.id, call.user, call.recipient, call.handle,
                                   call.interval, call.t)
           IN  /\ switch' = [switch EXCEPT ![call.id] = SetHash(@, record)]
               /\ dcreates' = [dcreates EXCEPT ![c].pc = "saddUser",
                                               ![c].nextDeadline = record.nextDeadline]
        /\ UNCHANGED <<recoveryVars, userIdx, activeIdx, fallback, release, now,
                       checkins, cancels, lists, sweeps>>

DmsCreateSaddUser ==
    \E c \in 1..Len(dcreates) :
        /\ dcreates[c].pc = "saddUser"
        /\ userIdx' = [userIdx EXCEPT ![dcreates[c].user] = @ \cup {dcreates[c].id}]
        /\ dcreates' = [dcreates EXCEPT ![c].pc = "saddActive"]
        /\ UNCHANGED <<recoveryVars, switch, activeIdx, fallback, release, now,
                       checkins, cancels, lists, sweeps>>

DmsCreateSaddActive ==
    \E c \in 1..Len(dcreates) :
        /\ dcreates[c].pc = "saddActive"
        /\ activeIdx' = activeIdx \cup {dcreates[c].id}
        /\ dcreates' = [dcreates EXCEPT ![c].pc = "done", ![c].http = 200]
        /\ UNCHANGED <<recoveryVars, switch, userIdx, fallback, release, now,
                       checkins, cancels, lists, sweeps>>

\* /create has answered with this switch id
DmsReturned(id) ==
    \E c \in 1..Len(dcreates) :
        dcreates[c].id = id /\ dcreates[c].pc = "done" /\ dcreates[c].http = 200

\* A client can name a switch id once /create has returned it or /list shows
\* it, that is once it is in a user's index.
DmsKnown(id) ==
    \A c \in 1..Len(dcreates) :
        dcreates[c].id = id
            => \/ dcreates[c].pc = "done"
               \/ id \in userIdx[dcreates[c].user]

----------------------------------------------------------------------------
\* getUserSwitches, as run by /checkin and /list

\* one turn of the loop of getUserSwitches: the switch read is kept if found
UserSwitchesLoop(call) ==
    LET sw  == GetSwitch(call.ids[call.i])
        got == IF sw # NoHash THEN Append(call.switches, sw) ELSE call.switches
    IN  [call EXCEPT !.switches = got, !.i = call.i + 1]

\* getUserSwitches without the filter of refreshDeadlines
ActiveOf_All(switches) == switches

\* switches.filter(s => s.status === 'active')
ActiveOf(switches) ==
    LET IsActive(sw) == sw.status = "active"
    IN  SelectSeq(switches, IsActive)

----------------------------------------------------------------------------
\* POST /checkin  ->  refreshDeadlines

\* refreshDeadlines after the smembers of getUserSwitches returned ids
CheckinStart(u, ids) ==
    LET call == [user |-> u, ids |-> ids, i |-> 1, switches |-> <<>>,
                 active |-> <<>>, j |-> 1, count |-> 0,
                 nextDeadline |-> NoDeadline, pc |-> "getSwitch", http |-> 0,
                 t |-> now, at |-> 0, alone |-> FALSE]
    IN  IF Len(ids) = 0 THEN [call EXCEPT !.pc = "done", !.http = 200] ELSE call

CheckinBegin ==
    \E u \in DmsUsers : \E ids \in Orders(userIdx[u]) :
        /\ DmsCalls < MaxDmsCalls
        /\ checkins' = Append(checkins, CheckinStart(u, ids))
        /\ UNCHANGED <<recoveryVars, switch, userIdx, activeIdx, fallback, release, now,
                       dcreates, cancels, lists, sweeps>>

\* a check-in that overlaps no other request to /api/dms: it arrives once
\* the earlier ones have been answered and none is issued after it
CheckinAlone ==
    \E u \in DmsUsers : \E ids \in Orders(userIdx[u]) :
        /\ DmsCalls = MaxDmsCalls
        /\ DmsQuiet
        /\ checkins' = Append(checkins, [CheckinStart(u, ids) EXCEPT !.alone = TRUE])
        /\ UNCHANGED <<recoveryVars, switch, userIdx, activeIdx, fallback, release, now,
                       dcreates, cancels, lists, sweeps>>

CheckinGetSwitch ==
    \E c \in 1..Len(checkins) :
        /\ checkins[c].pc = "getSwitch"
        /\ LET call   == UserSwitchesLoop(checkins[c])
               active == ActiveOf(call.switches)
           IN  checkins' = [checkins EXCEPT ![c] =
                   IF call.i <= Len(call.ids) THEN call
                   ELSE IF Len(active) = 0
                       THEN [call EXCEPT !.pc = "done", !.http = 200]
                       ELSE [call EXCEPT !.active = active, !.pc = "setHash",
                                         !.at = now]]
        /\ UNCHANGED <<recoveryVars, switch, userIdx, activeIdx, fallback, release, now,
                       dcreates, cancels, lists, sweeps>>

\* refreshDeadlines keeping the deadline written last
LatestDeadline_Last(latest, iso) == iso

\* the latest of the deadlines written so far
LatestDeadline(latest, iso) ==
    IF latest = NoDeadline THEN iso
    ELSE IF iso > latest THEN iso
    ELSE latest

\* refreshDeadlines that would also write status 'active'
CheckinSetHash_Reactivate ==
    \E c \in 1..Len(checkins) :
        /\ checkins[c].pc = "setHash"
        /\ LET call == checkins[c]
               sw   == call.active[call.j]
               iso  == call.at + sw.intervalHours
               last == call.j = Len(call.active)
           IN  /\ switch' = [switch EXCEPT ![sw.switchId] =
                                SetHash(@, [nextDeadline |-> iso, status |-> "active"])]
               /\ checkins' = [checkins EXCEPT ![c] =
                      [call EXCEPT !.j = call.j + 1,
                                   !.nextDeadline = LatestDeadline(call.nextDeadline, iso),
                                   !.count = IF last THEN Len(call.active) ELSE 0,
                                   !.pc = IF last THEN "done" ELSE "setHash",
                                   !.at = IF last THEN 0 ELSE now,
                                   !.http = IF last THEN 200 ELSE 0]]
        /\ UNCHANGED <<recoveryVars, userIdx, activeIdx, fallback, release, now,
                       dcreates, cancels, lists, sweeps>>

\* one turn of the loop of refreshDeadlines, lines 380-387: the deadline was
\* computed from the clock when the previous store call answered
CheckinSetHash ==
    \E c \in 1..Len(checkins) :
        /\ checkins[c].pc = "setHash"
        /\ LET call == checkins[c]
               sw   == call.active[call.j]
               iso  == call.at + sw.intervalHours
               last == call.j = Len(call.active)
           IN  /\ switch' = [switch EXCEPT ![sw.switchId] =
                                SetHash(@, [nextDeadline |-> iso])]
               /\ checkins' = [checkins EXCEPT ![c] =
                      [call EXCEPT !.j = call.j + 1,
                                   !.nextDeadline = LatestDeadline(call.nextDeadline, iso),
                                   !.count = IF last THEN Len(call.active) ELSE 0,
                                   !.pc = IF last THEN "done" ELSE "setHash",
                                   !.at = IF last THEN 0 ELSE now,
                                   !.http = IF last THEN 200 ELSE 0]]
        /\ UNCHANGED <<recoveryVars, userIdx, activeIdx, fallback, release, now,
                       dcreates, cancels, lists, sweeps>>

----------------------------------------------------------------------------
\* GET /list/:pubkey  ->  getUserSwitches

\* getUserSwitches after its smembers returned ids
ListStart(u, ids) ==
    LET call == [user |-> u, ids |-> ids, i |-> 1, switches |-> <<>>,
                 pc |-> "getSwitch", http |-> 0, alone |-> FALSE]
    IN  IF Len(ids) = 0 THEN [call EXCEPT !.pc = "done", !.http = 200] ELSE call

ListBegin ==
    \E u \in DmsUsers : \E ids \in Orders(userIdx[u]) :
        /\ DmsCalls < MaxDmsCalls
        /\ lists' = Append(lists, ListStart(u, ids))
        /\ UNCHANGED <<recoveryVars, switch, userIdx, activeIdx, fallback, release, now,
                       dcreates, checkins, cancels, sweeps>>

\* a /list that overlaps no other request to /api/dms
ListAlone ==
    \E u \in DmsUsers : \E ids \in Orders(userIdx[u]) :
        /\ DmsCalls = MaxDmsCalls
        /\ DmsQuiet
        /\ lists' = Append(lists, [ListStart(u, ids) EXCEPT !.alone = TRUE])
        /\ UNCHANGED <<recoveryVars, switch, userIdx, activeIdx, fallback, release, now,
                       dcreates, checkins, cancels, sweeps>>

ListGetSwitch ==
    \E c \in 1..Len(lists) :
        /\ lists[c].pc = "getSwitch"
        /\ LET call == UserSwitchesLoop(lists[c])
           IN  lists' = [lists EXCEPT ![c] =
                   IF call.i <= Len(call.ids) THEN call
                   ELSE [call EXCEPT !.pc = "done", !.http = 200]]
        /\ UNCHANGED <<recoveryVars, switch, userIdx, activeIdx, fallback, release, now,
                       dcreates, checkins, cancels, sweeps>>

----------------------------------------------------------------------------
\* DELETE /:switchId  ->  cancelSwitch

\* cancelSwitch without the ownership check of line 396
CancelCheck_AnyOwner(call, sw) ==
    IF sw = NoHash THEN [call EXCEPT !.pc = "done", !.http = 404]
    ELSE [call EXCEPT !.pc = "setHash"]

\* lines 394-396 and the route's 404
CancelCheck(call, sw) ==
    IF sw = NoHash THEN [call EXCEPT !.pc = "done", !.http = 404]
    ELSE IF sw.senderPubkey # call.user THEN [call EXCEPT !.pc = "done", !.http = 404]
    ELSE [call EXCEPT !.pc = "setHash"]

CancelBegin ==
    \E id \in SwitchIds, u \in DmsUsers :
        /\ DmsCalls < MaxDmsCalls
        /\ DmsKnown(id)
        /\ LET call == [id |-> id, user |-> u, pc |-> "getSwitch", http |-> 0,
                        returned |-> DmsReturned(id)]
           IN  cancels' = Append(cancels, CancelCheck(call, GetSwitch(id)))
        /\ UNCHANGED <<recoveryVars, switch, userIdx, activeIdx, fallback, release, now,
                       dcreates, checkins, lists, sweeps>>

CancelSetHash ==
    \E c \in 1..Len(cancels) :
        /\ cancels[c].pc = "setHash"
        /\ switch' = [switch EXCEPT ![cancels[c].id] = SetHash(@, [status |-> "cancelled"])]
        /\ cancels' = [cancels EXCEPT ![c].pc = "sremActive"]
        /\ UNCHANGED <<recoveryVars, userIdx, activeIdx, fallback, release, now,
                       dcreates, checkins, lists, sweeps>>

CancelSremActive ==
    \E c \in 1..Len(cancels) :
        /\ cancels[c].pc = "sremActive"
        /\ activeIdx' = activeIdx \ {cancels[c].id}
        /\ cancels' = [cancels EXCEPT ![c].pc = "sremUser"]
        /\ UNCHANGED <<recoveryVars, switch, userIdx, fallback, release, now,
                       dcreates, checkins, lists, sweeps>>

CancelSremUser ==
    \E c \in 1..Len(cancels) :
        /\ cancels[c].pc = "sremUser"
        /\ userIdx' = [userIdx EXCEPT ![cancels[c].user] = @ \ {cancels[c].id}]
        /\ cancels' = [cancels EXCEPT ![c].pc = "done", ![c].http = 200]
        /\ UNCHANGED <<recoveryVars, switch, activeIdx, fallback, release, now,
                       dcreates, checkins, lists, sweeps>>

----------------------------------------------------------------------------
\* POST /process  ->  getOverdueSwitches, then per overdue switch the release
\* and markTriggered.  The request carries the cron secret.

\* getOverdueSwitches moves on from ids[i]
SweepAdvance(call) ==
    IF call.i < Len(call.ids) THEN [call EXCEPT !.i = call.i + 1, !.pc = "getSwitch"]
    ELSE IF Len(call.overdue) = 0 THEN [call EXCEPT !.pc = "done", !.http = 200]
    ELSE [call EXCEPT !.pc = "resolve", !.k = 1]

\* the loop of the route moves on from overdue[k]
SweepNext(call) ==
    IF call.k < Len(call.overdue) THEN [call EXCEPT !.k = call.k + 1, !.pc = "resolve"]
    ELSE [call EXCEPT !.pc = "done", !.http = 200]

\* line 426 with the comparison turned around
IsOverdue_Reversed(sw, t) == t < sw.nextDeadline

\* line 426 without its comparison: every active switch is overdue
IsOverdue_Always(sw, t) == TRUE

\* line 426: new Date(sw.nextDeadline) < now
IsOverdue(sw, t) == sw.nextDeadline < t

\* lines 415-429 without the cleanup of lines 422-424
SweepClassify_NoCleanup(call, sw) ==
    IF sw = NoHash THEN [call EXCEPT !.pc = "srem"]
    ELSE IF sw.status # "active" THEN SweepAdvance(call)
    ELSE IF IsOverdue(sw, call.t)
        THEN SweepAdvance([call EXCEPT !.overdue = Append(@, sw)])
    ELSE SweepAdvance(call)

\* lines 415-429: what the loop does with the switch it read
SweepClassify(call, sw) ==
    IF sw = NoHash THEN [call EXCEPT !.pc = "srem"]
    ELSE IF sw.status # "active" THEN [call EXCEPT !.pc = "srem"]
    ELSE IF IsOverdue(sw, call.t)
        THEN SweepAdvance([call EXCEPT !.overdue = Append(@, sw)])
    ELSE SweepAdvance(call)

\* getOverdueSwitches after its smembers returned ids, at time now
SweepStart(ids) ==
    LET call == [ids |-> ids, i |-> 1, t |-> now, overdue |-> <<>>, k |-> 0,
                 payload |-> NoBlob, at |-> 0, processed |-> <<>>, errors |-> <<>>,
                 pc |-> "getSwitch", http |-> 0, alone |-> FALSE]
    IN  IF Len(ids) = 0 THEN [call EXCEPT !.pc = "done", !.http = 200] ELSE call

SweepBegin ==
    \E ids \in Orders(activeIdx) :
        /\ DmsCalls < MaxDmsCalls
        /\ sweeps' = Append(sweeps, SweepStart(ids))
        /\ UNCHANGED <<recoveryVars, switch, userIdx, activeIdx, fallback, release, now,
                       dcreates, checkins, cancels, lists>>

\* the cron job calls /process again; the answered run it replaces is
\* forgotten
SweepAgain ==
    \E c \in 1..Len(sweeps) :
        /\ sweeps[c].pc = "done"
        /\ \E ids \in Orders(activeIdx) : sweeps' = [sweeps EXCEPT ![c] = SweepStart(ids)]
        /\ UNCHANGED <<recoveryVars, switch, userIdx, activeIdx, fallback, release, now,
                       dcreates, checkins, cancels, lists>>

\* a sweep that overlaps no other request to /api/dms
SweepAlone ==
    \E ids \in Orders(activeIdx) :
        /\ DmsCalls = MaxDmsCalls
        /\ DmsQuiet
        /\ sweeps' = Append(sweeps, [SweepStart(ids) EXCEPT !.alone = TRUE])
        /\ UNCHANGED <<recoveryVars, switch, userIdx, activeIdx, fallback, release, now,
                       dcreates, checkins, cancels, lists>>

SweepGetSwitch ==
    \E c \in 1..Len(sweeps) :
        /\ sweeps[c].pc = "getSwitch"
        /\ sweeps' = [sweeps EXCEPT ![c] =
                         SweepClassify(@, GetSwitch(sweeps[c].ids[sweeps[c].i]))]
        /\ UNCHANGED <<recoveryVars, switch, userIdx, activeIdx, fallback, release, now,
                       dcreates, checkins, cancels, lists>>

\* lines 419 and 423: redis.srem(ACTIVE_SET, id)
SweepSrem ==
    \E c \in 1..Len(sweeps) :
        /\ sweeps[c].pc = "srem"
        /\ activeIdx' = activeIdx \ {sweeps[c].ids[sweeps[c].i]}
        /\ sweeps' = [sweeps EXCEPT ![c] = SweepAdvance(@)]
        /\ UNCHANGED <<recoveryVars, switch, userIdx, fallback, release, now,
                       dcreates, checkins, cancels, lists>>

\* lines 217-247 of the route up to the next store access: getUserAccount may
\* find the recipient or not, the fetch from the blob store may succeed or not
SweepResolveWith(found, fetched) ==
    \E c \in 1..Len(sweeps) :
        /\ sweeps[c].pc = "resolve"
        /\ LET call == sweeps[c]
               sw   == call.overdue[call.k]
           IN  sweeps' = [sweeps EXCEPT ![c] =
                   IF ~found
                       THEN SweepNext([call EXCEPT !.errors = Append(@, sw.switchId)])
                   ELSE IF sw.arweaveTxId[1] = "local"
                       THEN [call EXCEPT !.pc = "getBlob"]
                   ELSE IF ~fetched
                       THEN SweepNext([call EXCEPT !.errors = Append(@, sw.switchId)])
                   ELSE [call EXCEPT !.payload = Payload(sw.arweaveTxId[2]),
                                     !.pc = "import"]]
        /\ UNCHANGED <<recoveryVars, switch, userIdx, activeIdx, fallback, release, now,
                       dcreates, checkins, cancels, lists>>

SweepResolve == \E found \in BOOLEAN, fetched \in BOOLEAN : SweepResolveWith(found, fetched)

\* line 230: getMessageContent(`dms:${localId}`)
SweepGetBlob ==
    \E c \in 1..Len(sweeps) :
        /\ sweeps[c].pc = "getBlob"
        /\ LET call == sweeps[c]
               sw   == call.overdue[call.k]
               got  == GetMessageContent(fallback[sw.arweaveTxId[2]], now)
           IN  sweeps' = [sweeps EXCEPT ![c] =
                   IF got = NoBlob
                       THEN SweepNext([call EXCEPT !.errors = Append(@, sw.switchId)])
                       ELSE [call EXCEPT !.payload = got, !.pc = "import"]]
        /\ UNCHANGED <<recoveryVars, switch, userIdx, activeIdx, fallback, release, now,
                       dcreates, checkins, cancels, lists>>

\* line 250: the request is suspended at await import('../services/redis.js')
\* with the payload in hand; when it resumes it builds the release record,
\* reading the clock (line 258)
SweepImport ==
    \E c \in 1..Len(sweeps) :
        /\ sweeps[c].pc = "import"
        /\ sweeps' = [sweeps EXCEPT ![c].at = now, ![c].pc = "storeRelease"]
        /\ UNCHANGED <<recoveryVars, switch, userIdx, activeIdx, fallback, release, now,
                       dcreates, checkins, cancels, lists>>

\* lines 250-259: the released-message record
NewRelease(sw, payload, t) ==
    [type              |-> "dms_release",
     switchId          |-> sw.switchId,
     senderPubkey      |-> sw.senderPubkey,
     recipientUsername |-> sw.recipientUsername,
     encryptedMessage  |-> payload,
     triggeredAt       |-> t]

\* lines 248-259: storeMessageBlob of the record the route built when the
\* payload arrived, with the expiry of 90 days
SweepStoreRelease ==
    \E c \in 1..Len(sweeps) :
        /\ sweeps[c].pc = "storeRelease"
        /\ LET call == sweeps[c]
               sw   == call.overdue[call.k]
           IN  release' = [release EXCEPT ![sw.switchId] =
                   StoreMessageBlob(NewRelease(sw, call.payload, call.at),
                                    RELEASE_TTL, now)]
        /\ sweeps' = [sweeps EXCEPT ![c].pc = "setTriggered", ![c].at = now]
        /\ UNCHANGED <<recoveryVars, switch, userIdx, activeIdx, fallback, now,
                       dcreates, checkins, cancels, lists>>

\* markTriggered that would also drop the id from the sender's index
SweepSetTriggered_Unlist ==
    \E c \in 1..Len(sweeps) :
        /\ sweeps[c].pc = "setTriggered"
        /\ LET id == sweeps[c].overdue[sweeps[c].k].switchId
           IN  /\ switch' = [switch EXCEPT ![id] =
                                SetHash(@, [status |-> "triggered",
                                            triggeredAt |-> sweeps[c].at])]
               /\ userIdx' = [u \in DmsUsers |-> userIdx[u] \ {id}]
        /\ sweeps' = [sweeps EXCEPT ![c].pc = "sremTriggered", ![c].at = 0]
        /\ UNCHANGED <<recoveryVars, activeIdx, fallback, release, now,
                       dcreates, checkins, cancels, lists>>

\* markTriggered, line 438: triggeredAt is the clock when storeMessageBlob
\* answered
SweepSetTriggered ==
    \E c \in 1..Len(sweeps) :
        /\ sweeps[c].pc = "setTriggered"
        /\ LET id == sweeps[c].overdue[sweeps[c].k].switchId
           IN  switch' = [switch EXCEPT ![id] =
                             SetHash(@, [status |-> "triggered",
                                            triggeredAt |-> sweeps[c].at])]
        /\ sweeps' = [sweeps EXCEPT ![c].pc = "sremTriggered", ![c].at = 0]
        /\ UNCHANGED <<recoveryVars, userIdx, activeIdx, fallback, release, now,
                       dcreates, checkins, cancels, lists>>

\* markTriggered, line 442, and processed++
SweepSremTriggered ==
    \E c \in 1..Len(sweeps) :
        /\ sweeps[c].pc = "sremTriggered"
        /\ LET call == sweeps[c]
               id   == call.overdue[call.k].switchId
           IN  /\ activeIdx' = activeIdx \ {id}
               /\ sweeps' = [sweeps EXCEPT ![c] =
                      SweepNext([call EXCEPT !.processed = Append(@, id),
                                             !.payload = NoBlob])]
        /\ UNCHANGED <<recoveryVars, switch, userIdx, fallback, release, now,
                       dcreates, checkins, cancels, lists>>

\* lines 265-267: a store call made for overdue[k] (getMessageContent,
\* storeMessageBlob, or one of the two calls of markTriggered) throws without
\* having changed the store; the error is recorded and the loop goes on
SweepStoreThrows ==
    \E c \in 1..Len(sweeps) :
        /\ sweeps[c].pc \in {"getBlob", "storeRelease", "setTriggered", "sremTriggered"}
        /\ LET call == sweeps[c]
               id   == call.overdue[call.k].switchId
           IN  sweeps' = [sweeps EXCEPT ![c] =
                   SweepNext([call EXCEPT !.errors = Append(@, id),
                                          !.payload = NoBlob, !.at = 0])]
        /\ UNCHANGED <<recoveryVars, switch, userIdx, activeIdx, fallback, release, now,
                       dcreates, checkins, cancels, lists>>

\* the clock reaches the hour after the longest interval: more than a year
\* has passed since hour 0
LongWait ==
    /\ now <= MaxTime
    /\ now' = MAX_INTERVAL + 1
    /\ UNCHANGED <<recoveryVars, switch, userIdx, activeIdx, fallback, release,
                   dcreates, checkins, cancels, lists, sweeps>>

\* an hour passes
Tick ==
    /\ now < MaxTime
    /\ now' = now + 1
    /\ UNCHANGED <<recoveryVars, switch, userIdx, activeIdx, fallback, release,
                   dcreates, checkins, cancels, lists, sweeps>>

----------------------------------------------------------------------------
\* The signature check of the signed routes.  The other actions of these
\* routes are the requests whose signature verifies.

\* requests refused for their signature in one behaviour
MaxRefused == 2

\* the signature and timestamp of a request: verifying, not made by the
\* claimed key, made too long ago, or absent
Signatures == {"valid", "forged", "stale", "missing"}

\* the signatures that are present and do not verify
Unverified == Signatures \ {"valid", "missing"}

\* middleware/auth.js verifySignature(signature, timestamp, message, pubkey)
VerifySignature(sig) == sig = "valid"

\* a gate that lets every signature through
SignedGate_NoVerify(sig) ==
    IF sig = "missing" THEN 400 ELSE 0

\* /revoke, /approve, /checkin and DELETE /:switchId: the body check and the
\* signature check; 0 when the request goes on
SignedGate(sig) ==
    IF sig = "missing" THEN 400
    ELSE IF ~VerifySignature(sig) THEN 403
    ELSE 0

\* /distribute, lines 46-70
DistributeGate(threshold, guardians, sig) ==
    IF DistributeValidate(threshold, guardians) # 0
        THEN DistributeValidate(threshold, guardians)
    ELSE IF sig = "missing" THEN 401
    ELSE IF ~VerifySignature(sig) THEN 403
    ELSE 0

\* /create, lines 47-63
DmsCreateGate(interval, sig) ==
    IF DmsCreateValidate(interval) # 0 THEN DmsCreateValidate(interval)
    ELSE IF sig = "missing" THEN 401
    ELSE IF ~VerifySignature(sig) THEN 403
    ELSE 0

\* the answered call records that carry a signature that was refused
RefusedIn(calls) == {c \in 1..Len(calls) : "sig" \in DOMAIN calls[c]}

RefusedCalls ==
    Cardinality(RefusedIn(distributes)) + Cardinality(RefusedIn(revokes))
        + Cardinality(RefusedIn(approves)) + Cardinality(RefusedIn(dcreates))
        + Cardinality(RefusedIn(checkins)) + Cardinality(RefusedIn(cancels))

DistributeRefused ==
    \E o \in Owners, t \in DistributeThresholds, list \in DistributeLists,
       sig \in Unverified :
        /\ RefusedCalls < MaxRefused
        /\ LET guardians == MkGuardians(list, Len(distributes) + 1)
           IN  distributes' = Append(distributes,
                   [owner |-> o, threshold |-> t, guardians |-> guardians,
                    pc |-> "done", cfg |-> NoHash, i |-> 0,
                    http |-> DistributeGate(t, guardians, sig),
                    alone |-> FALSE, sig |-> sig])
        /\ UNCHANGED <<storeVars, revokes, creates, approves, releases, dmsVars>>

RevokeRefused ==
    \E o \in Owners, sig \in Unverified :
        /\ RefusedCalls < MaxRefused
        /\ revokes' = Append(revokes,
               [owner |-> o, pc |-> "done", cfg |-> NoHash, i |-> 0,
                http |-> SignedGate(sig), alone |-> FALSE, sig |-> sig])
        /\ UNCHANGED <<storeVars, distributes, creates, approves, releases, dmsVars>>

ApproveRefused ==
    \E s \in SessionIds, g \in Guardians, sig \in Unverified :
        /\ RefusedCalls < MaxRefused
        /\ Known(s)
        /\ approves' = Append(approves,
               [s |-> s, g |-> g, share |-> <<"r", Len(approves) + 1>>,
                pc |-> "done", sess |-> NoHash, msg |-> NoMsg,
                http |-> SignedGate(sig), received |-> 0, prior |-> FALSE,
                sig |-> sig])
        /\ UNCHANGED <<storeVars, distributes, revokes, creates, releases, dmsVars>>

DmsCreateRefused ==
    \E body \in DmsCreateInputs, sig \in Unverified :
        /\ RefusedCalls < MaxRefused
        /\ dcreates' = Append(dcreates,
               [user |-> body[1], recipient |-> body[2], interval |-> body[3],
                id |-> "", handle |-> <<>>, pc |-> "done",
                http |-> DmsCreateGate(body[3], sig),
                t |-> 0, nextDeadline |-> NoDeadline, sig |-> sig])
        /\ UNCHANGED <<recoveryVars, switch, userIdx, activeIdx, fallback, release, now,
                       checkins, cancels, lists, sweeps>>

CheckinRefused ==
    \E u \in DmsUsers, sig \in Unverified :
        /\ RefusedCalls < MaxRefused
        /\ checkins' = Append(checkins,
               [user |-> u, ids |-> <<>>, i |-> 1, switches |-> <<>>,
                active |-> <<>>, j |-> 1, count |-> 0,
                nextDeadline |-> NoDeadline, pc |-> "done",
                http |-> SignedGate(sig), t |-> now, alone |-> FALSE, sig |-> sig])
        /\ UNCHANGED <<recoveryVars, switch, userIdx, activeIdx, fallback, release, now,
                       dcreates, cancels, lists, sweeps>>

CancelRefused ==
    \E id \in SwitchIds, u \in DmsUsers, sig \in Unverified :
        /\ RefusedCalls < MaxRefused
        /\ cancels' = Append(cancels,
               [id |-> id, user |-> u, pc |-> "done", http |-> SignedGate(sig),
                returned |-> FALSE, sig |-> sig])
        /\ UNCHANGED <<recoveryVars, switch, userIdx, activeIdx, fallback, release, now,
                       dcreates, checkins, lists, sweeps>>

----------------------------------------------------------------------------
\* Specifications

EmptyCalls ==
    /\ distributes = <<>>
    /\ revokes = <<>>
    /\ creates = <<>>
    /\ approves = <<>>
    /\ releases = <<>>

\* no switch was ever created; the clock starts at hour 0
EmptyDms ==
    /\ switch = [id \in SwitchIds |-> NoHash]
    /\ userIdx = [u \in DmsUsers |-> {}]
    /\ activeIdx = {}
    /\ fallback = [id \in SwitchIds |-> NoBlob]
    /\ release = [id \in SwitchIds |-> NoBlob]
    /\ now = 0
    /\ dcreates = <<>>
    /\ checkins = <<>>
    /\ cancels = <<>>
    /\ lists = <<>>
    /\ sweeps = <<>>

EmptySessions ==
    /\ session = [s \in SessionIds |-> NoHash]
    /\ sessTTL = [s \in SessionIds |-> FALSE]
    /\ sshare  = [s \in SessionIds |-> [g \in Guardians |-> NoString]]
    /\ elapsed = [s \in SessionIds |-> FALSE]

\* the switches that exist when the behaviour starts: each entry is a /create
\* (senderPubkey, recipientUsername, checkInIntervalHours, whether the upload
\* succeeded) answered at hour 0, the i-th with the i-th switch id
SwitchSeq == <<"w1", "w2">>

\* one switch whose upload failed, with the shortest or the longest interval
SwitchSetups ==
    { << <<"u1", "bob", 1, FALSE>> >>,
      << <<"u1", "bob", 8760, FALSE>> >> }

\* two switches of two senders, one payload in the fallback store
BatchSetups ==
    { << <<"u1", "bob", 1, FALSE>>, <<"u2", "bob", 1, TRUE>> >> }

\* the store after the creates of a setup
SwitchesMade(setup) ==
        LET made == {i \in 1..Len(SwitchSeq) : i <= Len(setup)}
            at(id) == CHOOSE i \in 1..Len(SwitchSeq) : SwitchSeq[i] = id
            handle(id) == IF setup[at(id)][4] THEN <<"tx", id>> ELSE <<"local", id>>
        IN  /\ switch = [id \in SwitchIds |->
                    IF at(id) \in made
                        THEN NewSwitch(id, setup[at(id)][1], setup[at(id)][2], handle(id),
                                       setup[at(id)][3], 0)
                        ELSE NoHash]
            /\ userIdx = [u \in DmsUsers |->
                    {id \in SwitchIds : at(id) \in made /\ setup[at(id)][1] = u}]
            /\ activeIdx = {id \in SwitchIds : at(id) \in made}
            /\ fallback = [id \in SwitchIds |->
                    IF at(id) \in made /\ ~setup[at(id)][4]
                        THEN StoreMessageBlob(Payload(id), FALLBACK_TTL, 0)
                        ELSE NoBlob]
            /\ release = [id \in SwitchIds |-> NoBlob]
            /\ now = 0
            /\ dcreates = <<>>
            /\ checkins = <<>>
            /\ cancels = <<>>
            /\ lists = <<>>
            /\ sweeps = <<>>

\* the recovery store is empty and some switches exist
InitSweep ==
    /\ config = [o \in Owners |-> NoHash]
    /\ gshare = [o \in Owners |-> [g \in Guardians |-> NoHash]]
    /\ revoked = [o \in Owners |-> FALSE]
    /\ EmptySessions
    /\ EmptyCalls
    /\ \E setup \in SwitchSetups : SwitchesMade(setup)

\* the recovery store is empty and two switches exist
InitBatch ==
    /\ config = [o \in Owners |-> NoHash]
    /\ gshare = [o \in Owners |-> [g \in Guardians |-> NoHash]]
    /\ revoked = [o \in Owners |-> FALSE]
    /\ EmptySessions
    /\ EmptyCalls
    /\ \E setup \in BatchSetups : SwitchesMade(setup)

\* the store of a fresh deployment
Init ==
    /\ config = [o \in Owners |-> NoHash]
    /\ gshare = [o \in Owners |-> [g \in Guardians |-> NoHash]]
    /\ revoked = [o \in Owners |-> FALSE]
    /\ EmptySessions
    /\ EmptyCalls
    /\ EmptyDms

\* the store after one accepted, completed /distribute (k = 0 names its
\* ciphertexts), or a fresh one
ConfiguredStore ==
    /\ \E tl \in SessionConfigs, fresh \in BOOLEAN :
          LET t == tl[1]
              guardians == MkGuardians(tl[2], 0)
          IN  IF fresh
                  THEN /\ config = [o \in Owners |-> NoHash]
                       /\ gshare = [o \in Owners |-> [g \in Guardians |-> NoHash]]
                  ELSE /\ DistributeValidate(t, guardians) = 0
                       /\ config = [o \in Owners |-> NewConfig(o, t, guardians)]
                       /\ gshare = [o \in Owners |-> [g \in Guardians |->
                              IF \E i \in 1..Len(guardians) : guardians[i].pubkey = g
                                  THEN NewShare(o, guardians[
                                           CHOOSE i \in 1..Len(guardians) :
                                               /\ guardians[i].pubkey = g
                                               /\ \A j \in 1..Len(guardians) :
                                                      guardians[j].pubkey = g => j <= i])
                                  ELSE NoHash]]
    /\ revoked = [o \in Owners |-> FALSE]
    /\ EmptySessions
    /\ EmptyCalls

InitSession ==
    /\ ConfiguredStore
    /\ EmptyDms

\* a store with a recovery config, or none, and one switch
InitAuth ==
    /\ ConfiguredStore
    /\ \E setup \in SwitchSetups : SwitchesMade(setup)

\* setup and revocation racing with session creation
NextConfig ==
    \/ DistributeBegin
    \/ DistributeDelShare
    \/ DistributeDelConfig
    \/ DistributeSetConfig
    \/ DistributeSetShare
    \/ RevokeBegin
    \/ RevokeDelShare
    \/ RevokeDelConfig
    \/ CreateBegin
    \/ CreateSetHash
    \/ CreateSetExpiry

\* the life of sessions over a configuration that stays as it is
NextSession ==
    \/ CreateBegin
    \/ CreateSetHash
    \/ CreateSetExpiry
    \/ ApproveBegin
    \/ ApproveGetString
    \/ ApproveSetString
    \/ ApproveSetHash
    \/ ReleaseBegin
    \/ ReleaseGetString
    \/ ExpireSession
    \/ ExpireShare

\* setup and revocation alone: MaxConfigCalls requests in any interleaving,
\* then one more that runs by itself
NextReplace ==
    \/ DistributeBegin
    \/ DistributeDelShare
    \/ DistributeDelConfig
    \/ DistributeSetConfig
    \/ DistributeSetShare
    \/ RevokeBegin
    \/ RevokeDelShare
    \/ RevokeDelConfig
    \/ DistributeAlone
    \/ RevokeAlone

\* the dead man's switches: creation, check-in, listing, cancellation and the
\* sweep, in any interleaving, as the clock advances
NextDms ==
    \/ DmsCreateBegin
    \/ DmsCreateStoreBlob
    \/ DmsCreateSetHash
    \/ DmsCreateSaddUser
    \/ DmsCreateSaddActive
    \/ CheckinBegin
    \/ CheckinAlone
    \/ CheckinGetSwitch
    \/ CheckinSetHash
    \/ ListBegin
    \/ ListAlone
    \/ ListGetSwitch
    \/ CancelBegin
    \/ CancelSetHash
    \/ CancelSremActive
    \/ CancelSremUser
    \/ SweepBegin
    \/ SweepAlone
    \/ SweepGetSwitch
    \/ SweepSrem
    \/ SweepResolve
    \/ SweepGetBlob
    \/ SweepImport
    \/ SweepStoreRelease
    \/ SweepSetTriggered
    \/ SweepSremTriggered
    \/ Tick

\* requests for a session and approvals over a stored config, and distribute
\* requests with a body the route does not accept
NextGate ==
    \/ DistributeRejected
    \/ CreateBegin
    \/ CreateSetHash
    \/ CreateSetExpiry
    \/ ApproveBegin
    \/ ApproveGetString
    \/ ApproveSetString
    \/ ApproveSetHash

SpecGate == InitSession /\ [][NextGate]_vars

\* requests to the signed routes whose signature does not verify
NextAuth ==
    \/ DistributeRefused
    \/ RevokeRefused
    \/ ApproveRefused
    \/ DmsCreateRefused
    \/ CheckinRefused
    \/ CancelRefused

SpecAuth == InitAuth /\ [][NextAuth]_vars

\* the dead man's switches over a year and more
NextSweep ==
    \/ CheckinBegin
    \/ CheckinGetSwitch
    \/ CheckinSetHash
    \/ CancelBegin
    \/ CancelSetHash
    \/ CancelSremActive
    \/ CancelSremUser
    \/ SweepBegin
    \/ SweepAlone
    \/ SweepGetSwitch
    \/ SweepSrem
    \/ SweepResolve
    \/ SweepGetBlob
    \/ SweepImport
    \/ SweepStoreRelease
    \/ SweepSetTriggered
    \/ SweepSremTriggered
    \/ Tick
    \/ LongWait

SpecSweep == InitSweep /\ [][NextSweep]_vars

\* check-ins racing with runs of /process; nobody cancels
NextRace ==
    \/ CheckinBegin
    \/ CheckinGetSwitch
    \/ CheckinSetHash
    \/ SweepBegin
    \/ SweepAlone
    \/ SweepGetSwitch
    \/ SweepSrem
    \/ SweepResolve
    \/ SweepGetBlob
    \/ SweepImport
    \/ SweepStoreRelease
    \/ SweepSetTriggered
    \/ SweepSremTriggered
    \/ Tick
    \/ LongWait

SpecRace == InitSweep /\ [][NextRace]_vars

\* runs of /process over two switches, with store calls that may fail
NextBatch ==
    \/ SweepBegin
    \/ SweepAlone
    \/ SweepGetSwitch
    \/ SweepSrem
    \/ SweepResolve
    \/ SweepGetBlob
    \/ SweepImport
    \/ SweepStoreRelease
    \/ SweepSetTriggered
    \/ SweepSremTriggered
    \/ SweepStoreThrows
    \/ Tick

SpecBatch == InitBatch /\ [][NextBatch]_vars

\* the same runs over one switch
SpecCrash == InitSweep /\ [][NextBatch]_vars

\* the cron job keeps calling /process while the owners do nothing
NextLive ==
    \/ SweepBegin
    \/ SweepAgain
    \/ SweepGetSwitch
    \/ SweepSrem
    \/ SweepResolve
    \/ SweepGetBlob
    \/ SweepImport
    \/ SweepStoreRelease
    \/ SweepSetTriggered
    \/ SweepSremTriggered
    \/ Tick
    \/ LongWait

\* Every request that has started goes on (the event loop resumes each
\* await), the clock goes on, the cron job keeps calling /process, and the
\* recipient lookup and the payload fetch do not fail for ever.
FairLive ==
    /\ WF_vars(Tick)
    /\ WF_vars(SweepBegin \/ SweepAgain)
    /\ WF_vars(SweepGetSwitch)
    /\ WF_vars(SweepSrem)
    /\ WF_vars(SweepResolve)
    /\ SF_vars(SweepResolveWith(TRUE, TRUE))
    /\ WF_vars(SweepGetBlob)
    /\ WF_vars(SweepImport)
    /\ WF_vars(SweepStoreRelease)
    /\ WF_vars(SweepSetTriggered)
    /\ WF_vars(SweepSremTriggered)

SpecLive == InitSweep /\ [][NextLive]_vars /\ FairLive

SpecConfig == Init /\ [][NextConfig]_vars

SpecDms == Init /\ [][NextDms]_vars

SpecReplace == Init /\ [][NextReplace]_vars

SpecSession == InitSession /\ [][NextSession]_vars

\* the life of a session with one more approval arriving after the others
NextLate ==
    \/ CreateBegin
    \/ CreateSetHash
    \/ CreateSetExpiry
    \/ ApproveBegin
    \/ ApproveLate
    \/ ApproveGetString
    \/ ApproveSetString
    \/ ApproveSetHash
    \/ ReleaseBegin
    \/ ReleaseGetString
    \/ ExpireSession
    \/ ExpireShare

SpecLate == InitSession /\ [][NextLate]_vars


----------------------------------------------------------------------------
\* Properties of the session state machine (SpecSession)

\* the approve requests on (s, g) that returned 200
Succeeded(s, g) ==
    {c \in 1..Len(approves) :
        /\ approves[c].s = s /\ approves[c].g = g
        /\ approves[c].pc = "done" /\ approves[c].http = 200}

\* no approve request on s is between its first store access and its response
NoneInFlight(s) ==
    \A c \in 1..Len(approves) : approves[c].s = s => approves[c].pc = "done"

\* C1: a session whose status is 'ready' has at least `threshold` SessionShare
\* records (one per distinct guardian), whatever the interleaving of approvals
\* (SpecApprove: the approvals of a session may all overlap).
C1_ReadyHasThresholdShares ==
    \A s \in SessionIds :
        LET sess == GetSession(s)
        IN  (sess # NoHash /\ sess.status = "ready")
                => Cardinality(SessionShares(s)) >= sess.threshold

\* a session made ready by overlapping approvals: one that read the session
\* before the others wrote has since written its stale count over theirs
C1_Witness ==
    \E s \in SessionIds :
        /\ GetSession(s) # NoHash
        /\ GetSession(s).status = "ready"
        /\ GetSession(s).approvals < GetSession(s).threshold
        /\ Cardinality(SessionShares(s)) >= GetSession(s).threshold
        /\ \A a \in 1..Len(approves) : approves[a].pc = "done" /\ approves[a].http = 200

\* C2: the step in which a /shares request reads session s decides it from the
\* stored session: missing -> 404 and no share, any status but 'ready' -> 403
\* and no share; only a 'ready' session lets it go on to read shares, and every
\* share it ever returns is one stored for s.
C2_ReleaseStep ==
    \A c \in 1..Len(releases') :
        LET r    == releases'[c]
            sess == GetSession(r.s)
            new  == releases' # releases
                    /\ \A d \in 1..Len(releases) : releases[d].pc = "done"
        IN  /\ new /\ sess = NoHash
                => r.pc = "done" /\ r.http = 404 /\ r.shares = <<>>
            /\ new /\ sess # NoHash /\ sess.status # "ready"
                => r.pc = "done" /\ r.http = 403 /\ r.shares = <<>>
            /\ new /\ sess # NoHash /\ sess.status = "ready"
                => r.pc = "getString" /\ r.http = 0 /\ r.shares = <<>>
            /\ (~new /\ releases' # releases)
                => /\ releases[c].sess.status = "ready"
                   /\ \A i \in 1..Len(r.shares) :
                          \/ i <= Len(releases[c].shares) /\ r.shares[i] = releases[c].shares[i]
                          \/ r.shares[i].reEncryptedShare
                                 = GetSessionShare(r.s, r.shares[i].guardianPubkey)

C2_ReleasedOnlyWhenReady == [][C2_ReleaseStep]_vars

C2_Witness ==
    \E c \in 1..Len(releases) :
        /\ releases[c].pc = "done"
        /\ releases[c].http = 200
        /\ Len(releases[c].shares) >= 2

\* C3: of the approve requests of one guardian on one session exactly one
\* succeeds; every other one is answered 409 and the stored SessionShare is the
\* winner's.
C3_OneApprovalPerGuardian ==
    \A s \in SessionIds, g \in Guardians :
        /\ Cardinality(Succeeded(s, g)) <= 1
        /\ \A c \in Succeeded(s, g) :
               GetSessionShare(s, g) # NoString => GetSessionShare(s, g) = approves[c].share

\* C4: whenever no approve request on s is in flight, s.approvals equals the
\* number of SessionShare records stored for s.
C4_ApprovalsEqualShares ==
    \A s \in SessionIds :
        (NoneInFlight(s) /\ GetSession(s) # NoHash)
            => GetSession(s).approvals = Cardinality(SessionShares(s))

\* C5: once `threshold` distinct guardians have each completed a successful
\* approval of s (and s has not expired), s is 'ready'.
C5_ThresholdApprovalsMakeReady ==
    \A s \in SessionIds :
        LET sess == GetSession(s)
            ok   == {g \in Guardians : Succeeded(s, g) # {}}
        IN  (sess # NoHash /\ Cardinality(ok) >= sess.threshold)
                => sess.status = "ready"

\* C6: every step of an approve request of guardian g on s that was issued
\* after g's successful approval of s had returned, taken while s is pending,
\* leaves the session record and every SessionShare as they are; the request
\* gets as far as the "already approved" check and is answered 409 there.
C6_Step ==
    \A c \in 1..Len(approves') :
        LET a     == approves'[c]
            sess  == GetSession(a.s)
            new   == c > Len(approves)
            moved == c <= Len(approves) /\ approves[c] # a
        IN  (a.prior /\ (new \/ moved) /\ sess # NoHash /\ sess.status = "pending")
                => /\ session' = session
                   /\ sshare' = sshare
                   /\ new => a.pc = "getString"
                   /\ moved => a.pc = "done" /\ a.http = 409

C6_SecondApprovalConflicts == [][C6_Step]_vars

C6_Witness ==
    \E c \in 1..Len(approves) :
        /\ approves[c].prior
        /\ approves[c].pc = "done"
        /\ approves[c].http = 409
        /\ GetSession(approves[c].s) # NoHash
        /\ GetSession(approves[c].s).status = "pending"
        /\ GetSession(approves[c].s).approvals = 1

\* C7: an approve request of a guardian that is not in s.requestedGuardians is
\* answered 403 and stores no SessionShare.
C7_OutsiderRejected403 ==
    \A c \in 1..Len(approves) :
        LET a == approves[c]
        IN  (/\ a.pc = "done"
             /\ a.sess # NoHash
             /\ a.sess.status = "pending"
             /\ a.g \notin Range(a.sess.guardianPubkeys))
                => a.http = 403 /\ GetSessionShare(a.s, a.g) = NoString

\* C15: when /shares answers 200 for a session on which no approval is in
\* flight, it returns one record per guardian that successfully approved,
\* carrying a share that guardian submitted: as many records as approving
\* guardians, none for any other guardian, no guardian twice.
C15_ReleaseOnePerApprover ==
    \A r \in 1..Len(releases) :
        LET rel == releases[r]
            ok  == {g \in Guardians : Succeeded(rel.s, g) # {}}
        IN  (rel.pc = "done" /\ rel.http = 200 /\ ~elapsed[rel.s] /\ NoneInFlight(rel.s))
                => /\ Len(rel.shares) = Cardinality(ok)
                   /\ {rel.shares[i].guardianPubkey : i \in 1..Len(rel.shares)} = ok
                   /\ \A i, j \in 1..Len(rel.shares) :
                          rel.shares[i].guardianPubkey = rel.shares[j].guardianPubkey => i = j
                   /\ \A i \in 1..Len(rel.shares) :
                          \E d \in Succeeded(rel.s, rel.shares[i].guardianPubkey) :
                              approves[d].share = rel.shares[i].reEncryptedShare

\* C16: once the 24 h of session s have elapsed, getSession(s) returns null
\* and /status answers 404; an approve request that arrives is answered 404 in
\* the step that read the session and stores nothing; a /shares request that
\* arrives is answered 404 with no share.
C16_Step ==
    \A s \in SessionIds :
        elapsed[s]
            => /\ \A c \in 1..Len(approves') :
                      (c > Len(approves) /\ approves'[c].s = s)
                          => /\ approves'[c].pc = "done"
                             /\ approves'[c].http = 404
                             /\ approves'[c].msg = MsgNoSession
                             /\ sshare' = sshare
                             /\ session' = session
               /\ \A r \in 1..Len(releases') :
                      (/\ releases' # releases
                       /\ \A d \in 1..Len(releases) : releases[d].pc = "done"
                       /\ releases'[r].s = s)
                          => /\ releases'[r].pc = "done"
                             /\ releases'[r].http = 404
                             /\ releases'[r].shares = <<>>

C16_ExpiredUnreachable ==
    /\ [](\A s \in SessionIds :
              elapsed[s] => GetSession(s) = NoHash /\ StatusRoute(s).http = 404)
    /\ [][C16_Step]_vars

C16_Witness ==
    \E s \in SessionIds, c \in 1..Len(approves), r \in 1..Len(releases) :
        /\ elapsed[s]
        /\ StatusRoute(s).http = 404
        /\ approves[c].s = s
        /\ approves[c].sess = NoHash
        /\ approves[c].http = 404
        /\ releases[r].s = s
        /\ releases[r].sess = NoHash
        /\ releases[r].http = 404

\* C17: a SessionShare record of session s is stored only while the session
\* record of s is.
C17_SharesReapedWithSession ==
    \A s \in SessionIds :
        SessionShares(s) # {} => GetSession(s) # NoHash

----------------------------------------------------------------------------
\* Properties of setup, revocation and session creation (SpecConfig)

\* C8: a stored session record comes from a /request whose requestedGuardians
\* are non-empty and all among the guardians of the config it read, with that
\* config's threshold; a /request that found no config, or names a guardian
\* outside it, fails and stores nothing under the id it would have used.
C8_SessionFromConfig ==
    /\ \A s \in SessionIds :
           session[s] # NoHash =>
               \E c \in 1..Len(creates) :
                   /\ creates[c].sid = s
                   /\ creates[c].pc \in {"setExpiry", "done"}
                   /\ creates[c].cfg # NoHash
                   /\ session[s].guardianPubkeys = creates[c].list
                   /\ Len(session[s].guardianPubkeys) >= 1
                   /\ Range(session[s].guardianPubkeys)
                          \subseteq Range(creates[c].cfg.guardianPubkeys)
                   /\ session[s].threshold = creates[c].cfg.threshold
                   /\ session[s].ownerPubkey = creates[c].cfg.ownerPubkey
    /\ \A c \in 1..Len(creates) :
           (\/ creates[c].cfg = NoHash
            \/ ~(Range(creates[c].list) \subseteq Range(creates[c].cfg.guardianPubkeys)))
               => /\ creates[c].pc = "done"
                  /\ creates[c].http \in {400, 404}
                  /\ session[creates[c].uuid] = NoHash

C8_Witness ==
    \E c \in 1..Len(creates) :
        /\ creates[c].pc = "done"
        /\ creates[c].http = 200
        /\ session[creates[c].sid] # NoHash
        /\ Range(creates[c].list) # Range(creates[c].cfg.guardianPubkeys)

\* C9: once revokeShares has deleted o's config, and until a distribute writes
\* it again, no step writes a session record for o.
C9_Step ==
    \A o \in Owners :
        (revoked[o] /\ GetRecoveryConfig(o) = NoHash)
            => \A s \in SessionIds :
                   (session'[s] # NoHash /\ session'[s].ownerPubkey = o)
                       => session'[s] = session[s]

C9_NoSessionAfterRevoke == [][C9_Step]_vars

\* C10: every stored GuardianShare(g, o) has a stored config of o that lists g.
C10_ShareHasConfig ==
    \A o \in Owners, g \in Guardians :
        gshare[o][g] # NoHash
            => /\ GetRecoveryConfig(o) # NoHash
               /\ g \in Range(GetRecoveryConfig(o).guardianPubkeys)

----------------------------------------------------------------------------
\* Properties of setup and revocation running alone (SpecReplace)

\* the guardians that hold a GuardianShare for o
ShareHolders(o) == {g \in Guardians : gshare[o][g] # NoHash}

\* C11: after a successful /distribute(o, t, g[]) that overlapped no other
\* /distribute or /revoke, whatever calls came before it, o's config has
\* threshold t and lists g's pubkeys in order, and the guardians holding a
\* GuardianShare for o are exactly the pubkeys of g.
C11_DistributeReplaces ==
    \A c \in 1..Len(distributes) :
        LET call == distributes[c]
        IN  (call.alone /\ call.pc = "done" /\ call.http = 200)
                => /\ GetRecoveryConfig(call.owner) # NoHash
                   /\ GetRecoveryConfig(call.owner).threshold = call.threshold
                   /\ GetRecoveryConfig(call.owner).guardianPubkeys
                          = [i \in 1..Len(call.guardians) |-> call.guardians[i].pubkey]
                   /\ ShareHolders(call.owner)
                          = {call.guardians[i].pubkey : i \in 1..Len(call.guardians)}

\* C12: a /revoke(o) that overlapped no other /distribute or /revoke is
\* answered 200 and leaves no config and no GuardianShare for o; when it found
\* no config the store is as it was.
C12_RevokeClears ==
    \A c \in 1..Len(revokes) :
        LET call == revokes[c]
        IN  (call.alone /\ call.pc = "done")
                => /\ call.http = 200
                   /\ GetRecoveryConfig(call.owner) = NoHash
                   /\ ShareHolders(call.owner) = {}

----------------------------------------------------------------------------
\* Properties of approvals that arrive after the session left 'pending' (SpecLate)

\* C13: an approve request that finds the session in a status other than
\* 'pending' is rejected in the step that read the session: it is answered
\* with an error, no SessionShare is stored and the session record (approvals,
\* status) stays as it is; an answered request takes no further step.
C13_Step ==
    /\ \A c \in 1..Len(approves') :
           LET a    == approves'[c]
               sess == GetSession(a.s)
           IN  (c > Len(approves) /\ sess # NoHash /\ sess.status # "pending")
                   => /\ a.pc = "done"
                      /\ a.http >= 400
                      /\ a.msg = MsgSessionIs(sess.status)
                      /\ session' = session
                      /\ sshare' = sshare
    /\ \A c \in 1..Len(approves) :
           approves[c].pc = "done" => approves'[c] = approves[c]

C13_NotPendingRejected == [][C13_Step]_vars

C13_Witness ==
    \E c \in 1..Len(approves) :
        /\ approves[c].pc = "done"
        /\ approves[c].sess # NoHash
        /\ approves[c].sess.status = "ready"
        /\ approves[c].http = 500
        /\ GetSession(approves[c].s) # NoHash
        /\ GetSession(approves[c].s).approvals = approves[c].sess.approvals

\* the approve request c found its session 'ready', 2-of-3 over the requested
\* guardians g1, g2, g3, and comes from the one that has not approved
LateThird(c) ==
    LET a == approves[c]
    IN  /\ a.pc = "done"
        /\ a.sess # NoHash
        /\ a.sess.status = "ready"
        /\ a.sess.threshold = 2
        /\ a.sess.guardianPubkeys = <<"g1", "g2", "g3">>
        /\ Succeeded(a.s, a.g) \ {c} = {}
        /\ Cardinality({g \in Guardians : Succeeded(a.s, g) \ {c} # {}}) = 2

\* C14 (as claimed): in a 2-of-3 session that became 'ready' after two of its
\* guardians approved, the later approval of the third succeeds.
C14_LateApprovalSucceeds ==
    \A c \in 1..Len(approves) : LateThird(c) => approves[c].http = 200

\* C14 (amended): the later approval of the third guardian is rejected and
\* stores no share; until the session expires /shares returns two records,
\* those of the two guardians that approved, in the requested order.
C14_LateApprovalRejected ==
    \A c \in 1..Len(approves) :
        LET a == approves[c]
            Approved(g) == g # a.g
        IN  LateThird(c)
                => /\ a.http = 500
                   /\ GetSessionShare(a.s, a.g) = NoString
                   /\ \A r \in 1..Len(releases) :
                          (/\ releases[r].s = a.s
                           /\ releases[r].pc = "done"
                           /\ releases[r].http = 200
                           /\ ~elapsed[a.s])
                              => /\ [i \in 1..Len(releases[r].shares) |->
                                         releases[r].shares[i].guardianPubkey]
                                        = SelectSeq(a.sess.guardianPubkeys, Approved)
                                 /\ \A i \in 1..Len(releases[r].shares) :
                                        \E d \in Succeeded(a.s, releases[r].shares[i].guardianPubkey) \ {c} :
                                            approves[d].share
                                                = releases[r].shares[i].reEncryptedShare

C14_Witness ==
    \E c \in 1..Len(approves), r \in 1..Len(releases) :
        /\ LateThird(c)
        /\ approves[c].g = "g3"
        /\ releases[r].pc = "done"
        /\ releases[r].http = 200
        /\ Len(releases[r].shares) = 2
        /\ ~elapsed[approves[c].s]

----------------------------------------------------------------------------
\* Properties of the dead man's switches (SpecDms)

\* C18 as claimed: whenever no request is in flight, a switch is 'active'
\* exactly if its id is in ActiveSwitchIndex and in UserSwitchIndex of its
\* sender, and a 'triggered' or 'cancelled' switch is in neither index.
C18_IndexesMatchStatus ==
    DmsQuiet =>
        \A id \in SwitchIds :
            LET sw == GetSwitch(id)
            IN  sw # NoHash
                    => /\ (sw.status = "active")
                           <=> (id \in activeIdx /\ id \in userIdx[sw.senderPubkey])
                       /\ sw.status \in {"triggered", "cancelled"}
                           => (id \notin activeIdx /\ id \notin userIdx[sw.senderPubkey])

\* C18, in the reading that asks least of a 'triggered' switch: whenever no
\* request is in flight, a switch is 'active' exactly if its id is in
\* ActiveSwitchIndex and in UserSwitchIndex of its sender, a 'triggered'
\* switch is not in ActiveSwitchIndex (markTriggered keeps it in the sender's
\* index as history), and a 'cancelled' switch is in neither index.  It
\* follows from C18_IndexesMatchStatus.
C18_IndexesWithHistory ==
    DmsQuiet =>
        \A id \in SwitchIds :
            LET sw == GetSwitch(id)
            IN  sw # NoHash
                    => /\ (sw.status = "active")
                           <=> (id \in activeIdx /\ id \in userIdx[sw.senderPubkey])
                       /\ sw.status = "triggered" => id \notin activeIdx
                       /\ sw.status = "cancelled"
                           => (id \notin activeIdx /\ id \notin userIdx[sw.senderPubkey])

\* C19: after /create returned a switch id and its owner cancelled it, the
\* switch is 'cancelled' and in neither index, and a /list of the owner shows
\* it, not as active but as a cancelled entry.
C19_CancelledStaysListed ==
    \A l \in 1..Len(lists), c \in 1..Len(cancels) :
        (/\ lists[l].alone /\ lists[l].pc = "done"
         /\ cancels[c].returned /\ cancels[c].pc = "done" /\ cancels[c].http = 200
         /\ cancels[c].user = lists[l].user)
            => /\ GetSwitch(cancels[c].id).status = "cancelled"
               /\ cancels[c].id \notin activeIdx
               /\ cancels[c].id \notin userIdx[cancels[c].user]
               /\ lists[l].http = 200
               /\ \E i \in 1..Len(lists[l].switches) :
                      lists[l].switches[i].switchId = cancels[c].id
               /\ \A i \in 1..Len(lists[l].switches) :
                      lists[l].switches[i].switchId = cancels[c].id
                          => lists[l].switches[i].status = "cancelled"

\* the active switches of user u in the store after the step
ActiveSwitchesAfter(u) ==
    {id \in SwitchIds :
        /\ "switchId" \in DOMAIN switch'[id]
        /\ switch'[id].senderPubkey = u
        /\ switch'[id].status = "active"}

\* the latest of a set of deadlines, null if there is none
MaxDeadline(D) == IF D = {} THEN NoDeadline ELSE CHOOSE d \in D : \A e \in D : e <= d

\* C20: the step of createSwitch that writes the switch writes nextDeadline =
\* T + intervalHours, later than T, for the time T createSwitch read from the
\* clock, and that is the deadline the request answers with.  The step that completes a check-in of o which
\* overlapped no other request, the clock standing at T, leaves every active
\* switch w of o with nextDeadline = T + w.intervalHours, later than T; the
\* check-in answers with the number of these switches and the latest of
\* their deadlines (0 and null if o has no active switch).
C20_Step ==
    /\ \A c \in 1..Len(dcreates) :
           (dcreates[c].pc = "setHash" /\ dcreates'[c].pc # "setHash")
               => /\ switch'[dcreates[c].id].nextDeadline
                         = dcreates[c].t + dcreates[c].interval
                  /\ switch'[dcreates[c].id].nextDeadline > dcreates[c].t
                  /\ dcreates[c].t <= now
                  /\ dcreates'[c].nextDeadline = dcreates[c].t + dcreates[c].interval
    /\ \A c \in 1..Len(checkins') :
           LET call  == checkins'[c]
               ended == /\ call.pc = "done"
                        /\ c <= Len(checkins) => checkins[c].pc # "done"
               mine  == ActiveSwitchesAfter(call.user)
           IN  (ended /\ call.alone /\ call.t = now)
                   => /\ \A id \in mine :
                          /\ switch'[id].nextDeadline = now + switch'[id].intervalHours
                          /\ switch'[id].nextDeadline > now
                      /\ call.http = 200
                      /\ call.count = Cardinality(mine)
                      /\ call.nextDeadline
                             = MaxDeadline({switch'[id].nextDeadline : id \in mine})

C20_DeadlinesFromNow == [][C20_Step]_vars

C20_Witness ==
    \E c \in 1..Len(checkins) :
        /\ checkins[c].alone
        /\ checkins[c].pc = "done"
        /\ checkins[c].t = now
        /\ checkins[c].t >= 1
        /\ checkins[c].count = 2
        /\ checkins[c].nextDeadline = now + 2
        /\ \E id \in SwitchIds : GetSwitch(id) # NoHash /\ GetSwitch(id).nextDeadline = now + 1

----------------------------------------------------------------------------
\* Properties of the sweep (SpecSweep, SpecBatch)

\* C21: at the step that completes a sweep run, every switch the run counted
\* in processed has status 'triggered' with triggeredAt set, is absent from
\* ActiveSwitchIndex and has a release record with its senderPubkey, its
\* recipientUsername and its encrypted payload.
C21_Step ==
    \A c \in 1..Len(sweeps) :
        (sweeps[c].pc # "done" /\ sweeps'[c].pc = "done")
            => \A i \in 1..Len(sweeps'[c].processed) :
                   LET id == sweeps'[c].processed[i]
                   IN  /\ switch'[id].status = "triggered"
                       /\ "triggeredAt" \in DOMAIN switch'[id]
                       /\ id \notin activeIdx'
                       /\ release'[id] # NoBlob
                       /\ release'[id].content.switchId = id
                       /\ release'[id].content.senderPubkey = switch'[id].senderPubkey
                       /\ release'[id].content.recipientUsername = switch'[id].recipientUsername
                       /\ release'[id].content.encryptedMessage = Payload(id)

C21_ProcessedAreTriggered == [][C21_Step]_vars

\* C22: a sweep selects, releases and triggers only switches whose
\* nextDeadline, as it read it, is earlier than its own time: a switch it
\* reads with a deadline that is not earlier is not added to its overdue
\* list, and every switch it writes a release record or a status for is one
\* it read as overdue.  So after a sweep that overlaps no other request, a
\* switch that is active with a deadline not earlier than the sweep's time
\* (a check-in completed before) is in the active index and has no release
\* record.
C22_Step ==
    \A c \in 1..Len(sweeps) :
        LET call == sweeps[c]
        IN  /\ call.pc = "getSwitch"
                => LET sw == GetSwitch(call.ids[call.i])
                   IN  (sw # NoHash /\ sw.nextDeadline >= call.t)
                           => sweeps'[c].overdue = call.overdue
            /\ (call.pc \in {"storeRelease", "setTriggered", "sremTriggered"}
                    /\ sweeps'[c] # call)
                => /\ call.overdue[call.k].nextDeadline < call.t
                   /\ \A id \in SwitchIds \ {call.overdue[call.k].switchId} :
                          /\ release'[id] = release[id]
                          /\ switch'[id] = switch[id]

C22_KeptByCheckin ==
    \A c \in 1..Len(sweeps) :
        (sweeps[c].alone /\ sweeps[c].pc = "done")
            => \A id \in SwitchIds :
                   (/\ GetSwitch(id) # NoHash
                    /\ GetSwitch(id).status = "active"
                    /\ GetSwitch(id).nextDeadline >= sweeps[c].t)
                       => /\ id \in activeIdx
                          /\ release[id] = NoBlob
                          /\ \A i \in 1..Len(sweeps[c].processed) :
                                 sweeps[c].processed[i] # id

C22_OnlyOverdueTriggered == [][C22_Step]_vars /\ []C22_KeptByCheckin

C22_Witness ==
    \E c \in 1..Len(sweeps), k \in 1..Len(checkins), id \in SwitchIds :
        /\ checkins[k].pc = "done" /\ checkins[k].count = 1
        /\ sweeps[c].alone /\ sweeps[c].pc = "done"
        /\ sweeps[c].ids = <<id>>
        /\ sweeps[c].processed = <<>>
        /\ GetSwitch(id).status = "active"
        /\ GetSwitch(id).nextDeadline >= sweeps[c].t
        /\ sweeps[c].t > GetSwitch(id).intervalHours
        /\ id \in activeIdx
        /\ release[id] = NoBlob

\* the deadline of an active switch has passed
Overdue(id) ==
    /\ GetSwitch(id) # NoHash
    /\ GetSwitch(id).status = "active"
    /\ GetSwitch(id).nextDeadline < now

\* the switch is triggered and the recipient can read its release record
Released(id) ==
    /\ GetSwitch(id) # NoHash
    /\ GetSwitch(id).status = "triggered"
    /\ GetMessageContent(release[id], now) # NoBlob
    /\ GetMessageContent(release[id], now).encryptedMessage = Payload(id)

\* the payload of the switch can be fetched: one kept in the fallback store
\* has not expired
Fetchable(id) ==
    (GetSwitch(id) # NoHash /\ GetSwitch(id).arweaveTxId[1] = "local")
        => GetMessageContent(fallback[id], now) # NoBlob

\* C23: while the owners neither check in nor cancel, the cron job keeps
\* calling /process, the recipient lookup and the payload fetch succeed
\* again and again and the payload stays available, an active switch whose
\* deadline has passed is eventually triggered, with its release record
\* written.
C23_OverdueIsReleased ==
    \A id \in SwitchIds : ([]Fetchable(id)) => (Overdue(id) ~> Released(id))

C23_Witness ==
    /\ \E id \in SwitchIds : Released(id) /\ Fetchable(id)
    /\ \E c \in 1..Len(sweeps) : Len(sweeps[c].errors) > 0

\* the ids in a sequence of ids
Ids(seq) == {seq[i] : i \in 1..Len(seq)}

\* C24: at the step that completes a sweep which overlapped no other request,
\* every switch the sweep found overdue is either counted in processed, and
\* then triggered and released, or recorded in errors, and then still
\* 'active', in the active index and without a release record.
C24_Step ==
    \A c \in 1..Len(sweeps) :
        (sweeps[c].alone /\ sweeps[c].pc # "done" /\ sweeps'[c].pc = "done")
            => LET call == sweeps'[c]
                   found == {call.overdue[i].switchId : i \in 1..Len(call.overdue)}
               IN  /\ call.http = 200
                   /\ Ids(call.processed) \cup Ids(call.errors) = found
                   /\ Ids(call.processed) \cap Ids(call.errors) = {}
                   /\ \A id \in Ids(call.processed) :
                          /\ switch'[id].status = "triggered"
                          /\ id \notin activeIdx'
                          /\ release'[id] # NoBlob
                   /\ \A id \in Ids(call.errors) :
                          /\ switch'[id].status = "active"
                          /\ id \in activeIdx'
                          /\ release'[id] = NoBlob

C24_FailureDoesNotStopBatch == [][C24_Step]_vars

\* C25: a cancel request for a switch that does not exist or whose
\* senderPubkey is not the signer is answered 404 at once and leaves the
\* store as it is; every store write of a cancel request is made for an
\* existing switch of the signer and touches only that switch's record and
\* its entries in the two indexes.
C25_Step ==
    \A c \in 1..Len(cancels') :
        LET call == cancels'[c]
            sw   == GetSwitch(call.id)
        IN  IF c > Len(cancels)
            THEN IF sw = NoHash \/ sw.senderPubkey # call.user
                 THEN /\ call.pc = "done"
                      /\ call.http = 404
                      /\ UNCHANGED <<switch, userIdx, activeIdx, fallback, release>>
                 ELSE call.pc = "setHash"
            ELSE call # cancels[c]
                    => /\ sw # NoHash
                       /\ sw.senderPubkey = call.user
                       /\ \A id \in SwitchIds \ {call.id} : switch'[id] = switch[id]
                       /\ activeIdx' \ {call.id} = activeIdx \ {call.id}
                       /\ \A u \in DmsUsers :
                              userIdx'[u] \ {call.id} = userIdx[u] \ {call.id}
                       /\ UNCHANGED <<fallback, release>>

C25_CancelOnlyByOwner == [][C25_Step]_vars

C25_Witness ==
    \E c, d \in 1..Len(cancels) :
        /\ cancels[c].pc = "done" /\ cancels[c].http = 404
        /\ cancels[d].pc = "done" /\ cancels[d].http = 404
        /\ GetSwitch(cancels[c].id) = NoHash
        /\ GetSwitch(cancels[d].id) # NoHash
        /\ GetSwitch(cancels[d].id).senderPubkey # cancels[d].user
        /\ GetSwitch(cancels[d].id).status = "active"
        /\ cancels[d].id \in activeIdx
        /\ cancels[d].id \in userIdx[GetSwitch(cancels[d].id).senderPubkey]

\* C26: a switch whose payload handle starts with 'local:' has its ciphertext
\* in the fallback store, and whenever a sweep that found it overdue reads
\* the fallback store it gets that ciphertext and goes on, holding it, towards
\* the write of the release record, as on the external-store path.
C26_Step ==
    \A c \in 1..Len(sweeps) :
        (sweeps[c].pc = "getBlob" /\ sweeps'[c] # sweeps[c])
            => /\ sweeps'[c].pc = "import"
               /\ sweeps'[c].payload = Payload(sweeps[c].overdue[sweeps[c].k].switchId)

C26_FallbackIsReleased == [][C26_Step]_vars

----------------------------------------------------------------------------
\* Properties of the signed routes (SpecAuth)

\* the request that a step added to a list of calls, if it carries a
\* signature that does not verify
NewUnverified(before, after) ==
    /\ Len(after) = Len(before) + 1
    /\ "sig" \in DOMAIN after[Len(after)]
    /\ ~VerifySignature(after[Len(after)].sig)

StoreUnchanged ==
    UNCHANGED <<config, gshare, session, sessTTL, sshare,
                switch, userIdx, activeIdx, fallback, release>>

\* C27: a request to /distribute, /revoke, /approve, /create, /checkin or
\* DELETE /:switchId whose signature check is reached and fails (the
\* signature was not made by the claimed key, or its timestamp is outside the
\* window) is answered 403 and leaves every record of the store unchanged.
C27_Step ==
    /\ NewUnverified(distributes, distributes')
           => LET call == distributes'[Len(distributes')]
              IN  /\ StoreUnchanged
                  /\ call.pc = "done"
                  /\ DistributeValidate(call.threshold, call.guardians) = 0
                         => call.http = 403
    /\ NewUnverified(dcreates, dcreates')
           => LET call == dcreates'[Len(dcreates')]
              IN  /\ StoreUnchanged
                  /\ call.pc = "done"
                  /\ DmsCreateValidate(call.interval) = 0 => call.http = 403
    /\ NewUnverified(revokes, revokes')
           => /\ StoreUnchanged
              /\ revokes'[Len(revokes')].pc = "done"
              /\ revokes'[Len(revokes')].http = 403
    /\ NewUnverified(approves, approves')
           => /\ StoreUnchanged
              /\ approves'[Len(approves')].pc = "done"
              /\ approves'[Len(approves')].http = 403
    /\ NewUnverified(checkins, checkins')
           => /\ StoreUnchanged
              /\ checkins'[Len(checkins')].pc = "done"
              /\ checkins'[Len(checkins')].http = 403
    /\ NewUnverified(cancels, cancels')
           => /\ StoreUnchanged
              /\ cancels'[Len(cancels')].pc = "done"
              /\ cancels'[Len(cancels')].http = 403

C27_BadSignatureRefused == [][C27_Step]_vars

C27_Witness ==
    /\ \E c \in 1..Len(distributes) :
           /\ "sig" \in DOMAIN distributes[c]
           /\ distributes[c].http = 403
           /\ GetRecoveryConfig(distributes[c].owner) # NoHash
    /\ \E c \in 1..Len(cancels) :
           /\ "sig" \in DOMAIN cancels[c]
           /\ cancels[c].sig = "stale"
           /\ cancels[c].http = 403
           /\ GetSwitch(cancels[c].id) # NoHash
           /\ GetSwitch(cancels[c].id).senderPubkey = cancels[c].user
           /\ GetSwitch(cancels[c].id).status = "active"

----------------------------------------------------------------------------
\* Properties of /distribute's validation (SpecGate)

\* C28: /distribute answers 400 and leaves the owner's config and shares
\* unchanged unless 2 <= threshold <= guardians.length <= 10; every stored
\* config satisfies these bounds; and a session whose threshold equals the
\* number of configured guardians is ready only when each of them has a
\* SessionShare stored.
C28_Step ==
    Len(distributes') = Len(distributes) + 1
        => LET call == distributes'[Len(distributes')]
               n    == Len(call.guardians)
           IN  ~(2 <= call.threshold /\ call.threshold <= n /\ n <= 10)
                   => /\ call.http = 400
                      /\ call.pc = "done"
                      /\ UNCHANGED <<config, gshare>>

C28_Stored ==
    \A o \in Owners :
        LET cfg == GetRecoveryConfig(o)
        IN  cfg # NoHash
                => /\ 2 <= cfg.threshold
                   /\ cfg.threshold <= Len(cfg.guardianPubkeys)
                   /\ Len(cfg.guardianPubkeys) <= 10
                   /\ \A s \in SessionIds :
                          (/\ GetSession(s) # NoHash
                           /\ GetSession(s).ownerPubkey = o
                           /\ GetSession(s).status = "ready"
                           /\ GetSession(s).threshold = Len(cfg.guardianPubkeys))
                              => Range(cfg.guardianPubkeys) \subseteq SessionShares(s)

C28_ThresholdBounds == [][C28_Step]_vars /\ []C28_Stored

C28_Witness ==
    /\ \E c \in 1..Len(distributes) :
           /\ distributes[c].http = 400
           /\ Len(distributes[c].guardians) = 11
           /\ GetRecoveryConfig(distributes[c].owner) # NoHash
    /\ \E s \in SessionIds :
           /\ GetSession(s) # NoHash
           /\ GetSession(s).status = "ready"
           /\ GetSession(s).threshold
                  = Len(GetRecoveryConfig(GetSession(s).ownerPubkey).guardianPubkeys)

----------------------------------------------------------------------------
\* shareIndex values of /distribute (SpecIndex)

\* the shareIndex values a /distribute body gives its two guardians
ShareIndexLists == { <<0, 1>>, <<1, 0>>, <<0, 0>>, <<1, 2>> }

\* the guardians array of a request body whose shareIndex values are idx
MkGuardiansAt(pubkeys, k, idx) ==
    [i \in 1..Len(pubkeys) |->
        [pubkey |-> pubkeys[i], encryptedShare |-> <<"c", k, i>>, shareIndex |-> idx[i]]]

\* POST /distribute with a valid signature, threshold 2 and two guardians
\* whose shareIndex values the client chose
DistributeIndexed ==
    \E o \in Owners, idx \in ShareIndexLists :
        /\ ConfigCalls < MaxConfigCalls
        /\ LET guardians == MkGuardiansAt(<<"g1", "g2">>, Len(distributes) + 1, idx)
               bad  == DistributeValidate(2, guardians)
               call == [owner |-> o, threshold |-> 2, guardians |-> guardians,
                        pc |-> "done", cfg |-> NoHash, i |-> 0, http |-> bad,
                        alone |-> FALSE]
           IN  distributes' = Append(distributes,
                   IF bad # 0 THEN call ELSE RevokeEnter(call, GetRecoveryConfig(o)))
        /\ UNCHANGED <<storeVars, revokes, creates, approves, releases, dmsVars>>

NextIndex ==
    \/ DistributeIndexed
    \/ DistributeDelShare
    \/ DistributeDelConfig
    \/ DistributeSetConfig
    \/ DistributeSetShare

SpecIndex == Init /\ [][NextIndex]_vars

\* the shareIndex values of a guardians array are pairwise distinct and are
\* exactly 0..n-1
IndexesCover(guardians) ==
    /\ \A i, j \in 1..Len(guardians) :
           guardians[i].shareIndex = guardians[j].shareIndex => i = j
    /\ {guardians[i].shareIndex : i \in 1..Len(guardians)} = 0..(Len(guardians) - 1)

\* C29: /distribute answers 400 and stores nothing for a guardian list whose
\* shareIndex values are not pairwise distinct or are not exactly 0..n-1; and
\* once the distribute calls are answered, the shares of the guardians of a
\* stored config carry pairwise distinct shareIndex values that are exactly
\* 0..n-1.
C29_Step ==
    Len(distributes') = Len(distributes) + 1
        => LET call == distributes'[Len(distributes')]
           IN  ~IndexesCover(call.guardians)
                   => /\ call.http = 400
                      /\ call.pc = "done"
                      /\ UNCHANGED <<config, gshare>>

C29_Stored ==
    \A o \in Owners :
        LET cfg == GetRecoveryConfig(o)
        IN  (ConfigQuiet /\ cfg # NoHash)
                => LET keys == cfg.guardianPubkeys
                   IN  /\ \A i \in 1..Len(keys) : gshare[o][keys[i]] # NoHash
                       /\ \A i, j \in 1..Len(keys) :
                              gshare[o][keys[i]].shareIndex = gshare[o][keys[j]].shareIndex
                                  => i = j
                       /\ {gshare[o][keys[i]].shareIndex : i \in 1..Len(keys)}
                              = 0..(Len(keys) - 1)

C29_ShareIndexesCover == [][C29_Step]_vars /\ []C29_Stored

----------------------------------------------------------------------------
\* Sessions across /revoke and redistribution (SpecKeep)

\* the owner has the config of two guardians and no session yet
InitKeep ==
    /\ InitSession
    /\ \A o \in Owners :
           /\ GetRecoveryConfig(o) # NoHash
           /\ Len(GetRecoveryConfig(o).guardianPubkeys) = 2

\* the owner's one /revoke, issued while no /distribute is being served
RevokeOnce ==
    /\ ConfigQuiet
    /\ Len(revokes) = 0
    /\ RevokeBegin

\* the owner's one redistribution, issued while no /revoke is being served
Redistribute ==
    /\ ConfigQuiet
    /\ Len(distributes) = 0
    /\ DistributeBegin

NextKeep ==
    \/ RevokeOnce
    \/ RevokeDelShare
    \/ RevokeDelConfig
    \/ Redistribute
    \/ DistributeDelShare
    \/ DistributeDelConfig
    \/ DistributeSetConfig
    \/ DistributeSetShare
    \/ CreateBegin
    \/ CreateSetHash
    \/ CreateSetExpiry
    \/ ApproveBegin
    \/ ApproveGetString
    \/ ApproveSetString
    \/ ApproveSetHash
    \/ ReleaseBegin
    \/ ReleaseGetString

SpecKeep == InitKeep /\ [][NextKeep]_vars

\* the session the /request call c stored is still the one it stored, but for
\* its status and approvals counter
SnapshotKept(c) ==
    LET made == creates[c].sess
        sess == GetSession(creates[c].sid)
    IN  /\ sess # NoHash
        /\ sess.sessionId = made.sessionId
        /\ sess.ownerPubkey = made.ownerPubkey
        /\ sess.threshold = made.threshold
        /\ sess.guardianPubkeys = made.guardianPubkeys

\* C30: no step of a /revoke or of a /distribute changes a RecoverySession,
\* its expiry or a SessionShare; a session that was created keeps its
\* threshold and requestedGuardians whatever happens to the owner's config;
\* and, with or without a config, an approval of a pending session by one of
\* its requested guardians and a /shares request for a ready session are not
\* refused.
C30_Step ==
    /\ (revokes' # revokes \/ distributes' # distributes)
           => UNCHANGED <<session, sessTTL, sshare, elapsed>>
    /\ Len(approves') = Len(approves) + 1
           => LET call == approves'[Len(approves')]
                  sess == GetSession(call.s)
              IN  (/\ sess # NoHash
                   /\ sess.status = "pending"
                   /\ call.g \in Range(sess.guardianPubkeys))
                      => call.pc = "getString"
    /\ (releases' # releases /\ \A c \in 1..Len(releases) : releases[c].pc = "done")
           => LET call == releases'[1]
                  sess == GetSession(call.s)
              IN  (sess # NoHash /\ sess.status = "ready")
                      => (call.pc = "getString" \/ call.http = 200)

C30_Kept ==
    \A c \in 1..Len(creates) :
        (creates[c].pc = "done" /\ creates[c].http = 200) => SnapshotKept(c)

C30_SessionsSurviveRevoke == [][C30_Step]_vars /\ []C30_Kept

C30_Witness ==
    /\ \E c \in 1..Len(revokes) : revokes[c].pc = "done"
    /\ \E c \in 1..Len(distributes) :
           /\ distributes[c].pc = "done"
           /\ distributes[c].http = 200
    /\ \E c \in 1..Len(creates) :
           /\ creates[c].pc = "done"
           /\ creates[c].http = 200
           /\ GetSession(creates[c].sid).status = "ready"
           /\ GetSession(creates[c].sid).approvals >= creates[c].sess.threshold
           /\ GetRecoveryConfig(creates[c].owner) # NoHash
           /\ Range(creates[c].sess.guardianPubkeys)
                  \ Range(GetRecoveryConfig(creates[c].owner).guardianPubkeys) # {}
           /\ releases # <<>>
           /\ releases[1].s = creates[c].sid
           /\ releases[1].pc = "done"
           /\ releases[1].http = 200
           /\ Len(releases[1].shares) >= creates[c].sess.threshold

----------------------------------------------------------------------------
\* Properties of markTriggered and of the sweep's cleanup

\* the ids getUserSwitches(u) finds a record for, before and after the step
ListedFor(u) == {id \in userIdx[u] : "switchId" \in DOMAIN switch[id]}

ListedForAfter(u) == {id \in userIdx'[u] : "switchId" \in DOMAIN switch'[id]}

\* C31: the first step of markTriggered writes status 'triggered' and
\* triggeredAt (the time markTriggered was called) into the switch and
\* nothing else: every other field of the
\* switch, every other switch and both indexes are as before.  Its second
\* step removes the id from the active index and changes nothing else.
\* Neither step changes what getUserSwitches finds for the sender: a switch
\* that /list returned before is still returned, now as triggered.
C31_Step ==
    \A c \in 1..Len(sweeps) :
        LET call == sweeps[c]
        IN  /\ (call.pc = "setTriggered" /\ sweeps'[c].pc = "sremTriggered")
                => LET id == call.overdue[call.k].switchId
                       u  == switch[id].senderPubkey
                   IN  /\ switch'[id].status = "triggered"
                       /\ switch'[id].triggeredAt = call.at
                       /\ call.at <= now
                       /\ DOMAIN switch'[id] = DOMAIN switch[id] \cup {"status", "triggeredAt"}
                       /\ \A f \in DOMAIN switch[id] \ {"status", "triggeredAt"} :
                              switch'[id][f] = switch[id][f]
                       /\ \A other \in SwitchIds \ {id} : switch'[other] = switch[other]
                       /\ UNCHANGED <<userIdx, activeIdx, fallback, release>>
                       /\ ListedForAfter(u) = ListedFor(u)
            /\ (call.pc = "sremTriggered"
                    /\ Len(sweeps'[c].processed) = Len(call.processed) + 1)
                => LET id == call.overdue[call.k].switchId
                       u  == switch[id].senderPubkey
                   IN  /\ activeIdx' = activeIdx \ {id}
                       /\ UNCHANGED <<switch, userIdx, fallback, release>>
                       /\ ListedForAfter(u) = ListedFor(u)

C31_MarkTriggeredFrame == [][C31_Step]_vars

C31_Witness ==
    \E l \in 1..Len(lists) :
        /\ lists[l].alone
        /\ lists[l].pc = "done"
        /\ lists[l].http = 200
        /\ \E i \in 1..Len(lists[l].switches) :
               LET sw == lists[l].switches[i]
               IN  /\ sw.status = "triggered"
                   /\ sw.senderPubkey = lists[l].user
                   /\ sw.nextDeadline < sw.triggeredAt
                   /\ sw.switchId \notin activeIdx
                   /\ sw.switchId \in userIdx[lists[l].user]

\* C32: once a run of /process that overlapped no other request has
\* answered, every id in the active index has a switch record with status
\* 'active', except an id for which a store call of this very run failed.
\* Such a run writes a release record only for a switch that is 'active' at
\* that moment: a switch an earlier run left 'triggered' but still indexed
\* (its srem failed) is taken out of the index and is not released again.
C32_Cleaned ==
    \A c \in 1..Len(sweeps) :
        (sweeps[c].alone /\ sweeps[c].pc = "done")
            => \A id \in activeIdx :
                   \/ GetSwitch(id) # NoHash /\ GetSwitch(id).status = "active"
                   \/ id \in Range(sweeps[c].errors)

C32_Step ==
    \A c \in 1..Len(sweeps) :
        (sweeps[c].alone /\ sweeps[c].pc = "storeRelease" /\ release' # release)
            => LET id == sweeps[c].overdue[sweeps[c].k].switchId
               IN  /\ GetSwitch(id).status = "active"
                   /\ \A other \in SwitchIds \ {id} : release'[other] = release[other]

C32_SweepCleansIndex == []C32_Cleaned /\ [][C32_Step]_vars

C32_Witness ==
    \E c, d \in 1..Len(sweeps) : \E id \in SwitchIds :
        /\ ~sweeps[c].alone
        /\ sweeps[c].pc = "done"
        /\ id \in Range(sweeps[c].errors)
        /\ \A e \in 1..Len(sweeps) : id \notin Range(sweeps[e].processed)
        /\ sweeps[d].alone
        /\ sweeps[d].pc = "done"
        /\ sweeps[d].errors = <<>>
        /\ GetSwitch(id).status = "triggered"
        /\ release[id] # NoBlob
        /\ release[id].content.triggeredAt = GetSwitch(id).triggeredAt
        /\ id \notin activeIdx

----------------------------------------------------------------------------
\* Check-in against sweep (SpecRace)

\* C33: a switch a run of /process has counted as processed is 'triggered',
\* out of the active index and has its release record, whatever deadline a
\* check-in wrote into it after the run had read it as overdue; and no step
\* of a check-in changes a status, an index or a release record, so the
\* check-in does not make the switch 'active' again.
C33_Triggered ==
    \A c \in 1..Len(sweeps) : \A id \in Range(sweeps[c].processed) :
        /\ GetSwitch(id).status = "triggered"
        /\ id \notin activeIdx
        /\ release[id] # NoBlob
        /\ release[id].content.encryptedMessage = Payload(id)

C33_Step ==
    checkins' # checkins
        => /\ \A id \in SwitchIds :
                  "status" \in DOMAIN switch[id]
                      => /\ "status" \in DOMAIN switch'[id]
                         /\ switch'[id].status = switch[id].status
           /\ UNCHANGED <<activeIdx, userIdx, release>>

C33_TriggerWins == []C33_Triggered /\ [][C33_Step]_vars

\* a check-in that read the switch as active, after the run had started and
\* before the run stored the release record, has written its deadline over
\* the one the run had read as overdue; the run has counted the switch
C33_Witness ==
    \E c \in 1..Len(sweeps), k \in 1..Len(checkins), id \in SwitchIds :
        /\ sweeps[c].pc = "done"
        /\ sweeps[c].processed = <<id>>
        /\ checkins[k].pc = "done"
        /\ checkins[k].count = 1
        /\ GetSwitch(id).status = "triggered"
        /\ sweeps[c].overdue[1].nextDeadline < sweeps[c].t
        /\ GetSwitch(id).nextDeadline > sweeps[c].overdue[1].nextDeadline
        /\ GetSwitch(id).nextDeadline = checkins[k].nextDeadline
        /\ GetSwitch(id).nextDeadline - GetSwitch(id).intervalHours < GetSwitch(id).triggeredAt
        /\ sweeps[c].t <= GetSwitch(id).nextDeadline - GetSwitch(id).intervalHours

----------------------------------------------------------------------------
\* Frame of /checkin (SpecSweep)

\* the fields in which two hashes differ
Differ(a, b) ==
    {f \in DOMAIN a \cup DOMAIN b : f \notin DOMAIN a \/ f \notin DOMAIN b \/ a[f] # b[f]}

\* a check-in step changes nothing but the nextDeadline of switches of its
\* sender
C34_OwnDeadlinesOnly ==
    \A c \in 1..Len(checkins) :
        checkins'[c] # checkins[c]
            => /\ \A id \in SwitchIds :
                      switch'[id] # switch[id]
                          => /\ GetSwitch(id) # NoHash
                             /\ GetSwitch(id).senderPubkey = checkins[c].user
                             /\ Differ(switch[id], switch'[id]) = {"nextDeadline"}
               /\ UNCHANGED <<activeIdx, userIdx, release, fallback>>

\* C34: a step of a check-in of o changes nothing but the nextDeadline field
\* of switches whose senderPubkey is o and whose status is 'active' when the
\* step writes: no status, no index and no switch of another owner changes,
\* and a switch that is 'triggered' or 'cancelled' keeps its deadline, also
\* when the check-in overlaps a sweep or a cancel.
C34_Step ==
    /\ C34_OwnDeadlinesOnly
    /\ \A c \in 1..Len(checkins) :
           checkins'[c] # checkins[c]
               => \A id \in SwitchIds :
                      switch'[id] # switch[id] => GetSwitch(id).status = "active"

C34_CheckinFrame == [][C34_Step]_vars

\* a check-in step changes nothing but the nextDeadline of switches of its
\* sender that had status 'active' when the check-in read them
C34_ReadAsActive ==
    /\ C34_OwnDeadlinesOnly
    /\ \A c \in 1..Len(checkins) :
           checkins'[c] # checkins[c]
               => \A id \in SwitchIds :
                      switch'[id] # switch[id]
                          => \E i \in 1..Len(checkins[c].switches) :
                                 /\ checkins[c].switches[i].switchId = id
                                 /\ checkins[c].switches[i].status = "active"

C34_CheckinFrameAsRead == [][C34_ReadAsActive]_vars

\* a check-in that read the switch as active, after the run of /process had
\* stored the release record and before it marked the switch, has written
\* its deadline; the switch is triggered
C34_Witness ==
    \E k \in 1..Len(checkins), id \in SwitchIds :
        /\ checkins[k].pc = "done"
        /\ checkins[k].count = 1
        /\ GetSwitch(id) # NoHash
        /\ GetSwitch(id).status = "triggered"
        /\ GetSwitch(id).senderPubkey = checkins[k].user
        /\ GetSwitch(id).nextDeadline = checkins[k].nextDeadline
        /\ GetSwitch(id).triggeredAt < GetSwitch(id).nextDeadline - GetSwitch(id).intervalHours
        /\ id \notin activeIdx

----------------------------------------------------------------------------
\* Overlapping approvals of one session (SpecStale)

\* the owner has the 2-of-3 config and no session yet
InitStale ==
    /\ InitSession
    /\ \A o \in Owners :
           /\ GetRecoveryConfig(o) # NoHash
           /\ GetRecoveryConfig(o).threshold = 2
           /\ Len(GetRecoveryConfig(o).guardianPubkeys) = 3

\* one more approve request, which may overlap the MaxApprove others
ApproveOverlap ==
    \E s \in SessionIds, g \in Guardians :
        /\ Len(approves) = MaxApprove
        /\ Known(s)
        /\ LET call == [s |-> s, g |-> g, share |-> <<"r", Len(approves) + 1>>,
                        pc |-> "getSession", sess |-> GetSession(s), msg |-> NoMsg,
                        http |-> 0, received |-> 0, prior |-> ApprovedBefore(s, g)]
           IN  approves' = Append(approves, ApproveCheckSession(call))
        /\ UNCHANGED <<storeVars, distributes, revokes, creates, releases, dmsVars>>

NextStale ==
    \/ CreateBegin
    \/ CreateSetHash
    \/ CreateSetExpiry
    \/ ApproveBegin
    \/ ApproveOverlap
    \/ ApproveGetString
    \/ ApproveSetString
    \/ ApproveSetHash

SpecStale == InitStale /\ [][NextStale]_vars

\* approvals of one session that may all overlap, over each of the stored
\* configs, with the expiry of the session and of its shares
NextApprove ==
    \/ CreateBegin
    \/ CreateSetHash
    \/ CreateSetExpiry
    \/ ApproveBegin
    \/ ApproveOverlap
    \/ ApproveGetString
    \/ ApproveSetString
    \/ ApproveSetHash
    \/ ExpireSession
    \/ ExpireShare

SpecApprove == InitSession /\ [][NextApprove]_vars

\* C35: a stored session with status 'ready' has approvals >= threshold, and
\* no step makes the approvals counter of a stored session smaller.
C35_ReadyHasCount ==
    \A s \in SessionIds :
        (GetSession(s) # NoHash /\ GetSession(s).status = "ready")
            => GetSession(s).approvals >= GetSession(s).threshold

C35_Step ==
    \A s \in SessionIds :
        ("approvals" \in DOMAIN session[s] /\ "approvals" \in DOMAIN session'[s])
            => session'[s].approvals >= session[s].approvals

C35_CounterMonotone == []C35_ReadyHasCount /\ [][C35_Step]_vars

----------------------------------------------------------------------------
\* Cancel against sweep, and the statuses a switch goes through (SpecSweep)

\* C36: once a cancel of a switch has been answered 200, the switch has
\* status 'cancelled' and no later step writes its release record or changes
\* its status, also when the cancel overlapped a sweep that had read the
\* switch as overdue.
C36_Cancelled ==
    \A c \in 1..Len(cancels) :
        (cancels[c].pc = "done" /\ cancels[c].http = 200)
            => GetSwitch(cancels[c].id).status = "cancelled"

C36_Step ==
    \A c \in 1..Len(cancels) :
        (cancels[c].pc = "done" /\ cancels[c].http = 200)
            => /\ release'[cancels[c].id] = release[cancels[c].id]
               /\ switch'[cancels[c].id].status = switch[cancels[c].id].status

C36_CancelledNeverReleased == []C36_Cancelled /\ [][C36_Step]_vars

\* C37: the status of a switch changes only from 'active' to 'triggered' or
\* from 'active' to 'cancelled'; and a step of a cancel request on a switch
\* that is 'triggered' changes neither its status nor the membership of its
\* id in an index.
C37_Step ==
    /\ \A id \in SwitchIds :
           ("status" \in DOMAIN switch[id] /\ switch'[id] # switch[id])
               => \/ switch'[id].status = switch[id].status
                  \/ /\ switch[id].status = "active"
                     /\ switch'[id].status \in {"triggered", "cancelled"}
    /\ \A c \in 1..Len(cancels) :
           (/\ cancels'[c] # cancels[c]
            /\ GetSwitch(cancels[c].id) # NoHash
            /\ GetSwitch(cancels[c].id).status = "triggered")
               => /\ switch'[cancels[c].id].status = "triggered"
                  /\ (cancels[c].id \in activeIdx') = (cancels[c].id \in activeIdx)
                  /\ \A u \in DmsUsers :
                         (cancels[c].id \in userIdx'[u]) = (cancels[c].id \in userIdx[u])

C37_StatusesAreTerminal == [][C37_Step]_vars

----------------------------------------------------------------------------
\* Overlapping runs of /process (SpecRace)

\* C38: a switch is counted in processed by at most one run of /process, and
\* its release record and its triggeredAt, once written, are not written
\* again, also when two runs overlap.
C38_CountedOnce ==
    \A id \in SwitchIds :
        Cardinality({c \in 1..Len(sweeps) : id \in Range(sweeps[c].processed)}) <= 1

C38_Step ==
    \A c \in 1..Len(sweeps) :
        LET call == sweeps[c]
        IN  /\ (call.pc = "storeRelease" /\ sweeps'[c].pc = "setTriggered")
                => release[call.overdue[call.k].switchId] = NoBlob
            /\ (call.pc = "setTriggered" /\ sweeps'[c].pc = "sremTriggered")
                => "triggeredAt" \notin DOMAIN switch[call.overdue[call.k].switchId]

C38_TriggeredOnce == []C38_CountedOnce /\ [][C38_Step]_vars

----------------------------------------------------------------------------
\* Expiry of the session key (SpecSession)

\* C39: every session key in the store has an expiry set, except while the
\* /request that is creating it is between its setHash and its setExpiry;
\* in particular a key is not left without expiry by an approval that read
\* the session before it expired and writes the counter afterwards.
C39_SessionKeysExpire ==
    \A s \in SessionIds :
        (/\ session[s] # NoHash
         /\ \A c \in 1..Len(creates) : creates[c].sid = s => creates[c].pc = "done")
            => sessTTL[s]

----------------------------------------------------------------------------
\* Recoverability of an accepted config (SpecConfig)

\* the pubkeys in a guardians array, each counted once
DistinctPubkeys(guardians) == {guardians[i].pubkey : i \in 1..Len(guardians)}

\* C40: a /distribute whose guardian list has fewer distinct pubkeys than the
\* threshold is not accepted; and when a /distribute that overlapped no
\* other /distribute or /revoke has been answered 200, at least threshold
\* distinct guardians hold a GuardianShare of the owner.
C40_Step ==
    Len(distributes') = Len(distributes) + 1
        => LET call == distributes'[Len(distributes')]
           IN  Cardinality(DistinctPubkeys(call.guardians)) < call.threshold
                   => /\ call.pc = "done"
                      /\ call.http = 400

C40_Holders ==
    \A c \in 1..Len(distributes) :
        (/\ Len(distributes) + Len(revokes) = 1
         /\ distributes[c].pc = "done"
         /\ distributes[c].http = 200)
            => /\ GetRecoveryConfig(distributes[c].owner) # NoHash
               /\ Cardinality({g \in Guardians : gshare[distributes[c].owner][g] # NoHash})
                      >= GetRecoveryConfig(distributes[c].owner).threshold

C40_ConfigRecoverable == [][C40_Step]_vars /\ []C40_Holders

====
